---- MODULE Spec2Model ----
(***************************************************************************)
(* Verification model of the secondary-issuance audit scripts.             *)
(*                                                                         *)
(* Part I   the checkpointed miner-reward scan (miner_reward.js):          *)
(*          main's batch loop, loadCheckpoint / saveCheckpoint /           *)
(*          atomicWriteJson, process death and restart.                    *)
(* Part II  the paginated scans: the generator getDaoLiveCells with its    *)
(*          for-await consumer, and the get_transactions loop of the       *)
(*          settlement scans.                                              *)
(* Part III the worker pools: mapLimit over one page of a settlement scan  *)
(*          with the callbacks of both scans and the caches getTx and      *)
(*          getARByBlockNumberHex, and the windowed header fetch.          *)
(* Part IV  rpc with its retry loop (both forms found in the scripts).     *)
(* Part V   the unclaimed-reward scans over the live DAO cells.             *)
(* Part VI  the miner-secondary scan over the block headers and the        *)
(*          secondary-issuance estimate, with the header field decoders.   *)
(* Part VII the field decoders and the cell sizers applied to one input.   *)
(***************************************************************************)
EXTENDS Integers, Sequences, FiniteSets, TLC

(***************************************************************************)
(* Bounds of the model.                                                    *)
(***************************************************************************)
\* highest end height (tip - END_OFFSET) a run ever scans to
MaxEnd == 2
\* largest BATCH_SIZE a run is configured with (process.env.BATCH_SIZE)
MaxBatch == 2
\* iterations followed past the longest scan when BATCH_SIZE is 0
ExtraBatches == 2
\* largest CHECKPOINT_EVERY_BATCH a run is configured with
MaxEvery == 2
\* END_OFFSET (its default)
END_OFFSET == 11
\* number of heights for which the remote answers with something else than
\* the block (an error item, no item, a null result, a block without cellbase)
MaxFaults == 1
\* number of pages after which the remote's result set is exhausted
MaxPages == 3
\* largest number of objects the remote puts in one page
MaxPageLen == 2
\* largest number of items handed to one pool (arr.length, window count)
MaxArr == 3
\* largest number of workers (CONCURRENCY)
MaxLimit == 2
\* largest retries option rpc is called with
MaxRetries == 3
\* largest number of live DAO cells an unclaimed-reward scan goes through
MaxCells == 2
\* height of the tip of the chain the miner-secondary scan reads
MaxTip == 5
\* largest epoch length of that chain
MaxEpochLen == 3
\* largest window (CONCURRENCY * WINDOW_MULT) of the miner-secondary scan
MaxWindow == 2
\* most bytes of script args and of cell data handed to the cell sizers
MaxArgs == 2
MaxData == 2

VARIABLES
  \* ---- the remote node, as the miner-reward scan sees it
  tip,            \* number of the tip header (get_tip_header)
  remote,         \* height -> kind of the batch item the node returns for it
  \* ---- the file system
  files,          \* path -> content
  \* ---- the process running main()
  pc,             \* position of main
  BATCH_SIZE,     \* configuration of the current run
  CHECKPOINT_EVERY_BATCH,
  endHeight,
  startHeight,
  base,
  sum,
  batchCount,
  saveArg,        \* argument of the saveCheckpoint call in progress
  resumed,        \* the run follows a dead one and loaded its checkpoint
  \* ---- history
  completed,      \* heights whose batch has been processed (all runs)
  \* ---- a paginated scan
  scanKind,       \* "get_cells" (getDaoLiveCells) or "get_transactions"
  dedup,          \* the settlement scan keeps the set seenTx (part_005)
  seenTx,
  gpc,            \* position of the scan loop
  cursor,
  res,            \* result of the last paged query
  k,              \* index in res.objects of the object the consumer holds
  \* ---- history of the scan
  queries,        \* params of the paged queries issued, in order
  lastCursors,    \* last_cursor of the pages received, in order
  received,       \* objects of the pages received, in order
  yielded,        \* objects handed to the consumer, in order
  consumed,       \* objects the consumer is done with, in order
  handed,         \* inputTxHashes of the pages, in order: the hashes given
                  \* to mapLimit
  \* ---- a worker pool
  variant,        \* "strict" (dao_withdraw2_reward.js), "perInput", "window"
  shape,          \* the chain: what the settlement w1 and the cell it consumes
                  \* look like
  arr,            \* the items of the pool (tx hashes; heights of the window)
  limit,          \* number of workers
  poolI,          \* mapLimit's i (next - winFrom in the window fetch)
  wk,             \* worker -> its position
  call,           \* index -> the invocation of fn for it, at its await
  txCache,        \* keys of txCache (the value is what the node returned)
  arCache,        \* keys of arCache
  cacheValues,    \* the values the two Maps hold: [tx: hash -> value, ar: bn -> AR]
  totalReward,
  withdraw2Txs,
  out,            \* the window's result array
  plpc,           \* "running", "resolved" (Promise.all), "failed"
  \* ---- history of the pool
  invoked,        \* index -> number of invocations of fn
  inflightTx,     \* tx hash -> get_transaction requests in flight
  inflightAR,     \* height -> get_header_by_number requests of the AR lookup
  \* ---- one call of rpc
  rpcForm,        \* "lastErr" (throw lastErr after the loop), "rethrow", or
                  \* "single" (rpcSingle / rpcBatch of miner_reward.js)
  retries,        \* the retries option
  attempt,        \* the loop variable (i / attempt)
  rpcpc,          \* "fetch", "sleep", "returned", "threw"
  lastErr,
  rpcResult,      \* what the call returned
  rpcThrown,      \* what the call threw
  \* ---- history of the call
  attempts,       \* outcome of each attempt made, in order
  delays,         \* the delays slept, in order
  \* ---- an unclaimed-reward scan
  uForm,          \* "imported": occupiedCapacity of ckb_capacity.js;
                  \* "sized": the script with its own cell sizing
  cells,          \* the live DAO cells getDaoLiveCells yields, in order
  tipAR,          \* AR of the indexer tip, read once (getIndexerARandS)
  tipS,           \* S of the indexer tip, read with it
  uIdx,           \* number of cells the loop is done with
  unclaimedDeposit,
  unclaimedPrepare,
  upc,            \* "scan", "done", "failed"
  burnReport,     \* what the end of the scan printed about the treasury burn
  \* ---- history of the scan
  evals,          \* per cell: what the loop body did with it
  \* ---- the miner-secondary scan / the secondary-issuance estimate
  msForm,         \* "scan" or "estimate"
  msStart,        \* START
  msEnd,          \* END (the tip height for the estimate)
  windowSize,
  epochLen,       \* the chain: blocks per epoch
  fault,          \* the chain: the damaged header, if any
  prevHeader,
  cur,
  totalMinerSecondary,
  mspc,           \* "window", "estimate", "done", "failed"
  reported,       \* the total printed at the end
  \* ---- history of the scan
  msAdded,        \* per block processed: s_i and miner_i
  fetched,        \* heights of the headers fetched by the windows, in order
  msWindows,      \* the windows opened so far: [from, to]
  \* ---- the window of the miner-secondary scan being fetched
  msConcurrency,  \* CONCURRENCY
  winOut,         \* out: the window's array of headers
  winNext,        \* next: the height the next worker turn takes
  winWk,          \* worker -> [st: "await"/"exit", n: the height it awaits]
  \* ---- one application of a decoder or sizer
  codecIn,        \* the input
  codecOut,       \* what the function returned, or that it threw
  codecpc         \* "ready", "applied"

ckVars == <<tip, remote, files, pc, BATCH_SIZE,
            CHECKPOINT_EVERY_BATCH, endHeight, startHeight, base, sum,
            batchCount, saveArg, resumed, completed>>

pgVars == <<scanKind, gpc, cursor, res, k, queries, lastCursors, received,
            yielded, consumed, dedup, seenTx, handed>>

plVars == <<variant, shape, arr, limit, poolI, wk, call, txCache, arCache, cacheValues,
            totalReward,
            withdraw2Txs, out, plpc, invoked, inflightTx, inflightAR>>

rpVars == <<rpcForm, retries, attempt, rpcpc, lastErr, rpcResult, rpcThrown,
            attempts, delays>>

unVars == <<uForm, cells, tipAR, tipS, uIdx, unclaimedDeposit, unclaimedPrepare, upc,
            burnReport, evals>>

msVars == <<msForm, msStart, msEnd, windowSize, epochLen, fault, prevHeader, cur,
            totalMinerSecondary, mspc, reported, msAdded, fetched, msWindows,
            msConcurrency, winOut, winNext, winWk>>

cdVars == <<codecIn, codecOut, codecpc>>

vars == <<ckVars, pgVars, plVars, rpVars, unVars, msVars, cdVars>>

\* what an action of one part leaves alone: the variables of the other parts
ckOthers == <<pgVars, plVars, rpVars, unVars, msVars, cdVars>>

pgOthers == <<ckVars, plVars, rpVars, unVars, msVars, cdVars>>

plOthers == <<ckVars, pgVars, rpVars, unVars, msVars, cdVars>>

rpOthers == <<ckVars, pgVars, plVars, unVars, msVars, cdVars>>

unOthers == <<ckVars, pgVars, plVars, rpVars, msVars, cdVars>>

msOthers == <<ckVars, pgVars, plVars, rpVars, unVars, cdVars>>

cdOthers == <<ckVars, pgVars, plVars, rpVars, unVars, msVars>>

(***************************************************************************)
(* Values.                                                                 *)
(***************************************************************************)
Null == [kind |-> "null"]

Min(a, b) == IF a < b THEN a ELSE b

Max(a, b) == IF a > b THEN a ELSE b

RECURSIVE Pow2(_)
Pow2(n) == IF n <= 0 THEN 1 ELSE 2 * Pow2(n - 1)

\* heights the scan can reach within the bounds
Heights == 0 .. MaxEnd

\* capacity of the cellbase output of block h on the modelled chain
\* (distinct powers of two: a sum tells which heights are in it)
Capacity(h) == Pow2(h)

\* the block get_block_by_number returns for height h
Block(h) ==
  [kind |-> "block",
   transactions |-> << [outputs |-> << [capacity |-> Capacity(h)] >>] >>]

\* a block whose first transaction has no output
BlockNoOutput ==
  [kind |-> "block", transactions |-> << [outputs |-> << >>] >>]

ReplyKinds == {"ok", "error", "missing", "null", "nooutput"}

(***************************************************************************)
(* Decimal strings: BigInt.prototype.toString() and BigInt(string).        *)
(* A string is a sequence of one-character strings.                        *)
(***************************************************************************)
Digits == <<"0", "1", "2", "3", "4", "5", "6", "7", "8", "9">>

DigitValue(c) == CHOOSE d \in 0 .. 9 : Digits[d + 1] = c

IsDigit(c) == \E d \in 0 .. 9 : Digits[d + 1] = c

RECURSIVE toStringPos(_)
toStringPos(n) ==
  IF n < 10 THEN << Digits[n + 1] >>
  ELSE Append(toStringPos(n \div 10), Digits[(n % 10) + 1])

\* n.toString() of a BigInt
toString(n) == IF n < 0 THEN << "-" >> \o toStringPos(0 - n) ELSE toStringPos(n)

RECURSIVE parseDigits(_, _)
parseDigits(s, acc) ==
  IF s = <<>> THEN acc
  ELSE parseDigits(Tail(s), acc * 10 + DigitValue(Head(s)))

\* BigInt(s) accepts a decimal string; it throws a SyntaxError otherwise
BigIntAccepts(s) == \A j \in 1 .. Len(s) : IsDigit(s[j])

BigIntOf(s) == parseDigits(s, 0)

(***************************************************************************)
(* extractMinerReward                                                      *)
(***************************************************************************)
extractMinerReward(block) ==
  IF block.kind = "null" THEN Null
  ELSE IF Len(block.transactions) = 0 THEN Null
  ELSE IF Len(block.transactions[1].outputs) = 0 THEN Null
  ELSE [kind |-> "value", value |-> block.transactions[1].outputs[1].capacity]

(***************************************************************************)
(* The batch response of the remote for the calls of one batch: one item   *)
(* per call id, none for a height the remote leaves out.                   *)
(***************************************************************************)
ResponseItem(i, h) ==
  CASE remote[h] = "ok"       -> [id |-> i, error |-> FALSE, result |-> Block(h)]
    [] remote[h] = "null"     -> [id |-> i, error |-> FALSE, result |-> Null]
    [] remote[h] = "nooutput" -> [id |-> i, error |-> FALSE, result |-> BlockNoOutput]
    [] OTHER                  -> [id |-> i, error |-> TRUE, result |-> Null]

\* the items the remote answers the calls base .. base+actual-1 with
Results(b, actual) ==
  { ResponseItem(i, b + i) : i \in { j \in 0 .. (actual - 1) : remote[b + j] # "missing" } }

\* number of calls the inner loop builds: heights base .. base+BATCH_SIZE-1, cut at endHeight
Actual(b, size, end) == Max(0, Min(size, end - b + 1))

\* the arrays rpcBatch(calls) may return: the items in any order
ResponseArrays(b, actual) ==
  LET items == Results(b, actual)
  IN { q \in [1 .. Cardinality(items) -> items] : \A x \in items : \E n \in DOMAIN q : q[n] = x }

\* byId.get(i) when the map has no entry for i
NoItem == [id |-> -1, error |-> FALSE, result |-> Null]

\* (mutant) the response for call i is looked for at position i of the array
ByPosition(results) ==
  [i \in 0 .. (MaxBatch - 1) |->
     IF i < Len(results) /\ results[i + 1].id = i THEN results[i + 1] ELSE NoItem]

\* const byId = new Map(results.map((r) => [r.id, r])): a later entry of the
\* array replaces an earlier one with the same id
ById(results) ==
  [i \in 0 .. (MaxBatch - 1) |->
     IF \E n \in 1 .. Len(results) : results[n].id = i
     THEN results[CHOOSE n \in 1 .. Len(results) :
                    /\ results[n].id = i
                    /\ \A m \in (n + 1) .. Len(results) : results[m].id # i]
     ELSE NoItem]

\* what the loop "for i < actual" adds to sum for call id i
ItemAmount(byId, i) ==
  LET r == byId[i]
  IN IF r = NoItem \/ r.error THEN 0
     ELSE LET cap == extractMinerReward(r.result)
          IN IF cap.kind = "null" THEN 0 ELSE cap.value

RECURSIVE BatchAmount(_, _)
BatchAmount(byId, actual) ==
  IF actual <= 0 THEN 0
  ELSE BatchAmount(byId, actual - 1) + ItemAmount(byId, actual - 1)

(***************************************************************************)
(* Checkpoint I/O                                                          *)
(***************************************************************************)
CHECKPOINT_FILE == "miner_reward.checkpoint.json"

\* (mutant) the content is written to the checkpoint file itself
TmpPathInPlace(filePath) == filePath

\* atomicWriteJson: const tmp = `${filePath}.tmp`
TmpPath(filePath) == "miner_reward.checkpoint.json.tmp"

Paths == {CHECKPOINT_FILE, TmpPath(CHECKPOINT_FILE)}

Absent == [kind |-> "absent"]

\* a file whose write was cut short
Partial == [kind |-> "partial"]

\* the members of the parsed checkpoint object: a JSON string, a JSON number,
\* or a member that is not there; value is the text of the token
JsonString(s) == [type |-> "string", value |-> s]

JsonNumber(n) == [type |-> "number", value |-> toString(n)]

Undefined == [type |-> "undefined", value |-> << >>]

JsonFile(next, total, end) ==
  [kind |-> "json", next_height |-> next, sum_shannons |-> total, end_height |-> end]

\* JSON.stringify of the object saveCheckpoint builds (updated_at is only logged)
CheckpointJson(arg) ==
  JsonFile(JsonString(toString(arg.nextHeight)),
           JsonString(toString(arg.sum)),
           JsonString(toString(arg.endHeight)))

\* (mutant) the typeof test is dropped
IsStringTypedAny(v) == TRUE

\* typeof v === "string"
IsStringTyped(v) == v.type = "string"

\* BigInt(v) returns for a decimal string and for a whole number; it throws a
\* SyntaxError for another string and a TypeError for undefined
BigIntTakes(v) ==
  CASE v.type = "string" -> BigIntAccepts(v.value)
    [] v.type = "number" -> BigIntAccepts(v.value)
    [] OTHER -> FALSE

\* j.end_height != null
HasEnd(file) == file.end_height.type # "undefined"

\* the try block of loadCheckpoint: every throw in it is caught and gives null
loadCheckpoint(file) ==
  IF file.kind = "absent" THEN Null
  ELSE IF file.kind # "json" THEN Null
  ELSE IF ~ (IsStringTyped(file.next_height) /\ IsStringTyped(file.sum_shannons)) THEN Null
  ELSE IF ~ (/\ BigIntTakes(file.next_height)
             /\ BigIntTakes(file.sum_shannons)
             /\ (HasEnd(file) => BigIntTakes(file.end_height))) THEN Null
  ELSE [kind |-> "ckpt",
        nextHeight |-> BigIntOf(file.next_height.value),
        sum |-> BigIntOf(file.sum_shannons.value),
        hasEnd |-> HasEnd(file),
        endHeight |-> IF HasEnd(file) THEN BigIntOf(file.end_height.value) ELSE 0]

NoArg == [kind |-> "none"]

\* (mutant) the height scanned to is written as the end height
SaveArgEndIsNext(next, s, end) ==
  [kind |-> "arg", nextHeight |-> next, sum |-> s, endHeight |-> next]

SaveArg(next, s, end) ==
  [kind |-> "arg", nextHeight |-> next, sum |-> s, endHeight |-> end]

(***************************************************************************)
(* main                                                                    *)
(***************************************************************************)
\* the memory of a process that is not running
MemoryReset ==
  /\ BATCH_SIZE' = 1
  /\ CHECKPOINT_EVERY_BATCH' = 1
  /\ endHeight' = 0
  /\ startHeight' = 0
  /\ base' = 0
  /\ sum' = 0
  /\ batchCount' = 0
  /\ saveArg' = NoArg
  /\ resumed' = FALSE

\* (mutant) every run starts over from height 0
ResumeHeightZero(ckpt) == 0

\* where a run resumes: (startHeight, sum) from the checkpoint, or (0, 0)
ResumeHeight(ckpt) == IF ckpt.kind = "ckpt" THEN ckpt.nextHeight ELSE 0

\* (mutant) the restored sum is dropped
ResumeSumZero(ckpt) == 0

ResumeSum(ckpt) == IF ckpt.kind = "ckpt" THEN ckpt.sum ELSE 0

\* (mutant) the test is dropped
AlreadyBeyondNever(start, end) == FALSE

\* if (startHeight > endHeight): nothing to do
AlreadyBeyond(start, end) == start > end

\* main up to the batch loop: getTip, the configuration, loadCheckpoint, the
\* "already beyond endHeight" return
Main(sizes) ==
  /\ UNCHANGED ckOthers
  /\ pc \in {"boot", "dead", "done"}
  /\ \E t \in tip .. (MaxEnd + END_OFFSET), bs \in sizes, ev \in 1 .. MaxEvery :
       LET ckpt == loadCheckpoint(files[CHECKPOINT_FILE])
           end == t - END_OFFSET
       IN /\ tip' = t
          /\ BATCH_SIZE' = bs
          /\ CHECKPOINT_EVERY_BATCH' = ev
          /\ endHeight' = end
          /\ startHeight' = ResumeHeight(ckpt)
          /\ sum' = ResumeSum(ckpt)
          /\ base' = ResumeHeight(ckpt)
          /\ batchCount' = 0
          /\ saveArg' = NoArg
          /\ resumed' = (pc = "dead" /\ ckpt.kind = "ckpt")
          /\ pc' = IF AlreadyBeyond(ResumeHeight(ckpt), end) THEN "done" ELSE "batch"
  /\ UNCHANGED <<remote, files, completed>>

\* a run configured with a BATCH_SIZE of one or more
MainStart == Main(1 .. MaxBatch)

\* a run configured with any whole BATCH_SIZE from 0 on: Number("0") is 0 and
\* nothing checks it
MainAnyBatch == Main(0 .. MaxBatch)

\* which saveCheckpoint call follows batch number n ending at height scanned
CheckpointDue(n, every) == n % every = 0

\* (mutant) the final checkpoint names the end height as the next one
FinalArgAtEnd(s, end) == SaveArg(end, s, end)

\* saveCheckpoint({ nextHeight: endHeight + 1n, sum, endHeight })
FinalArg(s, end) == SaveArg(end + 1, s, end)

\* the loop's "base += BATCH_SIZE" and test "base <= endHeight"; the final
\* saveCheckpoint call when the loop ends
LoopAdvance(b, s) ==
  IF b + BATCH_SIZE <= endHeight
  THEN /\ base' = b + BATCH_SIZE
       /\ pc' = "batch"
       /\ saveArg' = NoArg
  ELSE /\ base' = b + BATCH_SIZE
       /\ pc' = "final_open"
       /\ saveArg' = FinalArg(s, endHeight)

\* one iteration of the batch loop, from building the calls to the decision
\* whether to checkpoint: rpcBatch answers, the items are added
Batch ==
  /\ UNCHANGED ckOthers
  /\ pc = "batch"
  /\ \E results \in ResponseArrays(base, Actual(base, BATCH_SIZE, endHeight)) :
     LET actual == Actual(base, BATCH_SIZE, endHeight)
         scanned == base + actual
         newSum == sum + BatchAmount(ById(results), actual)
     IN /\ sum' = newSum
        /\ batchCount' = batchCount + 1
        /\ completed' = completed \cup (base .. (scanned - 1))
        /\ IF CheckpointDue(batchCount + 1, CHECKPOINT_EVERY_BATCH)
           THEN /\ saveArg' = SaveArg(scanned, newSum, endHeight)
                /\ pc' = "ckpt_open"
                /\ UNCHANGED base
           ELSE LoopAdvance(base, newSum)
  /\ UNCHANGED <<tip, remote, files, BATCH_SIZE,
                 CHECKPOINT_EVERY_BATCH, endHeight, startHeight, resumed>>

\* fs.writeFileSync(path, ...) first truncates the file ...
Truncated(fs, path) == [fs EXCEPT ![path] = Partial]

\* ... and then holds the whole content
Written(fs, path, content) == [fs EXCEPT ![path] = content]

\* fs.renameSync(from, to)
Renamed(fs, from, to) ==
  IF from = to THEN fs
  ELSE [p \in Paths |-> IF p = to THEN fs[from]
                        ELSE IF p = from THEN Absent ELSE fs[p]]

\* atomicWriteJson, first half of fs.writeFileSync(tmp, JSON.stringify(obj))
WriteTmpOpen ==
  /\ UNCHANGED ckOthers
  /\ pc \in {"ckpt_open", "final_open"}
  /\ files' = Truncated(files, TmpPath(CHECKPOINT_FILE))
  /\ pc' = IF pc = "ckpt_open" THEN "ckpt_write" ELSE "final_write"
  /\ UNCHANGED <<tip, remote, BATCH_SIZE, CHECKPOINT_EVERY_BATCH,
                 endHeight, startHeight, base, sum, batchCount, saveArg,
                 resumed, completed>>

\* atomicWriteJson, second half of fs.writeFileSync(tmp, JSON.stringify(obj))
WriteTmpData ==
  /\ UNCHANGED ckOthers
  /\ pc \in {"ckpt_write", "final_write"}
  /\ files' = Written(files, TmpPath(CHECKPOINT_FILE), CheckpointJson(saveArg))
  /\ pc' = IF pc = "ckpt_write" THEN "ckpt_rename" ELSE "final_rename"
  /\ UNCHANGED <<tip, remote, BATCH_SIZE, CHECKPOINT_EVERY_BATCH,
                 endHeight, startHeight, base, sum, batchCount, saveArg,
                 resumed, completed>>

\* atomicWriteJson: fs.renameSync(tmp, filePath), then the loop goes on
RenameCheckpoint ==
  /\ UNCHANGED ckOthers
  /\ pc = "ckpt_rename"
  /\ files' = Renamed(files, TmpPath(CHECKPOINT_FILE), CHECKPOINT_FILE)
  /\ LoopAdvance(base, sum)
  /\ UNCHANGED <<tip, remote, BATCH_SIZE, CHECKPOINT_EVERY_BATCH, endHeight,
                 startHeight, sum, batchCount, resumed, completed>>

\* the rename of the final checkpoint, then main reports the total and returns
RenameFinal ==
  /\ UNCHANGED ckOthers
  /\ pc = "final_rename"
  /\ files' = Renamed(files, TmpPath(CHECKPOINT_FILE), CHECKPOINT_FILE)
  /\ pc' = "done"
  /\ saveArg' = NoArg
  /\ UNCHANGED <<tip, remote, BATCH_SIZE, CHECKPOINT_EVERY_BATCH, endHeight,
                 startHeight, base, sum, batchCount, resumed, completed>>

\* the process dies (killed, or rpcSingle / rpcBatch throws and main's catch
\* exits): its memory is lost, the files stay as they are
ProcessDies ==
  /\ UNCHANGED ckOthers
  /\ pc \notin {"boot", "dead", "done"}
  /\ pc' = "dead"
  /\ MemoryReset
  /\ UNCHANGED <<tip, remote, files, completed>>

CkInit ==
  /\ tip = END_OFFSET - 1
  /\ remote \in { f \in [Heights -> ReplyKinds] :
                    Cardinality({h \in Heights : f[h] # "ok"}) <= MaxFaults }
  /\ files = [p \in Paths |-> Absent]
  /\ pc = "boot"
  /\ BATCH_SIZE = 1
  /\ CHECKPOINT_EVERY_BATCH = 1
  /\ endHeight = 0
  /\ startHeight = 0
  /\ base = 0
  /\ sum = 0
  /\ batchCount = 0
  /\ saveArg = NoArg
  /\ resumed = FALSE
  /\ completed = {}

\* checkpoint files a first run may find that no run of the program wrote:
\* none, a cut one, members of another type, a member that is not there,
\* strings that are no numbers, and one without end_height
FoundFiles ==
  { Absent, Partial,
    JsonFile(JsonNumber(1), JsonString(toString(Capacity(0))), JsonString(toString(1))),
    JsonFile(JsonString(toString(1)), JsonNumber(Capacity(0)), JsonString(toString(1))),
    JsonFile(Undefined, JsonString(toString(Capacity(0))), JsonString(toString(1))),
    JsonFile(JsonString(toString(1)), Undefined, Undefined),
    JsonFile(JsonString(<< "x" >>), JsonString(toString(Capacity(0))), JsonString(toString(1))),
    JsonFile(JsonString(toString(1)), JsonString(toString(Capacity(0))), Undefined) }

\* the state before the first run, with a checkpoint file found in the
\* working directory
CkInitFound ==
  /\ tip = END_OFFSET - 1
  /\ remote = [h \in Heights |-> "ok"]
  /\ \E f \in FoundFiles :
       files = [p \in Paths |-> IF p = CHECKPOINT_FILE THEN f ELSE Absent]
  /\ pc = "boot"
  /\ BATCH_SIZE = 1
  /\ CHECKPOINT_EVERY_BATCH = 1
  /\ endHeight = 0
  /\ startHeight = 0
  /\ base = 0
  /\ sum = 0
  /\ batchCount = 0
  /\ saveArg = NoArg
  /\ resumed = FALSE
  /\ completed = {}

CkNext ==
  \/ MainStart
  \/ Batch
  \/ WriteTmpOpen
  \/ WriteTmpData
  \/ RenameCheckpoint
  \/ RenameFinal
  \/ ProcessDies

\* iterations of the batch loop followed in a run whose base stands still
MaxBatches == MaxEnd + 1 + ExtraBatches

BatchWithin ==
  /\ batchCount < MaxBatches
  /\ Batch

\* the program with every whole BATCH_SIZE from 0 on
CkNextAnyBatch ==
  \/ MainAnyBatch
  \/ BatchWithin
  \/ WriteTmpOpen
  \/ WriteTmpData
  \/ RenameCheckpoint
  \/ RenameFinal
  \/ ProcessDies

(***************************************************************************)
(* Part II: paginated scans                                                *)
(***************************************************************************)
\* a value of cursor / last_cursor that is absent (null or undefined)
NoCursor == [kind |-> "null"]

\* a cursor string; the tokens of different pages differ in their page number
CursorString(text, n) == [kind |-> "string", text |-> text, page |-> n]

\* the cursor token the remote hands out with its n-th page
CursorToken(n) == CursorString("0x...", n)

\* what the remote may put in last_cursor of its n-th page
LastCursorValues(n) ==
  {NoCursor, CursorString("", 0), CursorString("0x", 0), CursorString("0x0", 0),
   CursorToken(n)}

\* JavaScript truthiness of a cursor value
Truthy(c) == c.kind # "null" /\ c.text # ""

\* (mutant) the '0x0' cursor is taken for a cursor to go on with
UsableCursorNoZero(c) == Truthy(c) /\ c.text # "0x"

\* the test guarding params.push(cursor) and, negated, the break after a page
UsableCursor(c) == Truthy(c) /\ c.text # "0x" /\ c.text # "0x0"

\* the objects value of a page: absent, or a list
NoObjects == [kind |-> "absent"]

ObjectList(items) == [kind |-> "list", items |-> items]

\* res.objects || []  (and the test !res.objects || res.objects.length === 0)
ObjectsOrEmpty(objects) == IF objects.kind = "absent" THEN <<>> ELSE objects.items

\* params of the paged query of a scan
QueryParams(kind, crs) ==
  LET fixed == IF kind = "get_cells"
               THEN [method |-> "get_cells", script |-> "DAO_TYPE",
                     script_type |-> "type", order |-> "asc", limit |-> "LIMIT_CELLS"]
               ELSE [method |-> "get_transactions", script |-> "DAO_TYPE",
                     script_type |-> "type", order |-> "desc", limit |-> "pageLimit"]
  IN IF UsableCursor(crs) THEN << fixed, crs >> ELSE << fixed >>

\* the pages the remote may answer the n-th query with; its objects are
\* numbered on from those already sent; its result set ends with page MaxPages
RemotePages(n, sent) ==
  { [objects |-> o, last_cursor |-> c] :
      o \in {NoObjects} \cup
             { ObjectList([i \in 1 .. len |-> sent + i]) :
                 len \in 0 .. (IF n >= MaxPages THEN 0 ELSE MaxPageLen) },
      c \in LastCursorValues(n) }

\* the page of its result set the remote answers a query with: the first for
\* a query without cursor, else the one after the page the cursor came with
PageAsked(params) == IF Len(params) = 2 THEN params[2].page + 1 ELSE 1

\* (mutant) the cursor is kept only when there is none yet: cursor = cursor || last
AfterPageKeepsFirst(page) ==
  IF UsableCursor(page.last_cursor)
  THEN /\ cursor' = IF UsableCursor(cursor) THEN cursor ELSE page.last_cursor
       /\ gpc' = "query"
  ELSE /\ gpc' = "done"
       /\ UNCHANGED cursor

\* after the objects of a page: break, or keep the cursor and query again
AfterPage(page) ==
  IF UsableCursor(page.last_cursor)
  THEN /\ cursor' = page.last_cursor
       /\ gpc' = "query"
  ELSE /\ gpc' = "done"
       /\ UNCHANGED cursor

\* the object the indexer sends as its n-th: the transactions have two DAO
\* inputs and one DAO output each, and come one after the other
IndexerObject(n) ==
  [io_type |-> IF n % 3 = 0 THEN "output" ELSE "input", tx_hash |-> (n + 2) \div 3]

\* (mutant) a hash seen before is taken again
TakesHashAlways(h, seen) == TRUE

\* !seenTx.has(h)
TakesHash(h, seen) == h \notin seen

RECURSIVE Classify(_, _, _, _)
\* the loop over the objects of a page: the tx hashes of its 'input' objects,
\* each once when the scan keeps seenTx
Classify(objs, n, seen, hashes) ==
  IF n > Len(objs) THEN [seenTx |-> seen, inputTxHashes |-> hashes]
  ELSE LET o == IndexerObject(objs[n])
       IN IF o.io_type # "input" THEN Classify(objs, n + 1, seen, hashes)
          ELSE IF ~ dedup THEN Classify(objs, n + 1, seen, Append(hashes, o.tx_hash))
          ELSE IF TakesHash(o.tx_hash, seen)
          THEN Classify(objs, n + 1, seen \cup {o.tx_hash}, Append(hashes, o.tx_hash))
          ELSE Classify(objs, n + 1, seen, hashes)

\* one paged query and what the loop does with the answer up to its next
\* suspension: break on an empty page, else hand out the first object
\* (get_cells) or start the page's mapLimit (get_transactions)
Query ==
  /\ UNCHANGED pgOthers
  /\ gpc = "query"
  /\ Len(queries) < MaxPages
  /\ \E page \in RemotePages(PageAsked(QueryParams(scanKind, cursor)), Len(received)) :
       LET objs == ObjectsOrEmpty(page.objects)
       IN /\ queries' = Append(queries, QueryParams(scanKind, cursor))
          /\ lastCursors' = Append(lastCursors, page.last_cursor)
          /\ received' = received \o objs
          /\ res' = page
          /\ IF Len(objs) = 0
             THEN /\ gpc' = "done"
                  /\ UNCHANGED <<k, yielded>>
             ELSE IF scanKind = "get_cells"
             THEN /\ gpc' = "yielded"
                  /\ k' = 1
                  /\ yielded' = Append(yielded, objs[1])
             ELSE /\ gpc' = "page"
                  /\ k' = 0
                  /\ yielded' = yielded \o objs
          /\ IF Len(objs) = 0 \/ scanKind = "get_cells"
             THEN UNCHANGED <<seenTx, handed>>
             ELSE LET c == Classify(objs, 1, seenTx, << >>)
                  IN /\ seenTx' = c.seenTx
                     /\ handed' = handed \o c.inputTxHashes
  /\ UNCHANGED <<scanKind, dedup, cursor, consumed>>

\* (mutant) the loop over res.objects ends one object early
NextCellEndsEarly ==
  /\ UNCHANGED pgOthers
  /\ gpc = "yielded"
  /\ consumed' = Append(consumed, res.objects.items[k])
  /\ IF k + 1 < Len(res.objects.items)
     THEN /\ k' = k + 1
          /\ yielded' = Append(yielded, res.objects.items[k + 1])
          /\ UNCHANGED <<gpc, cursor>>
     ELSE /\ AfterPage(res)
          /\ UNCHANGED <<k, yielded>>
  /\ UNCHANGED <<scanKind, dedup, seenTx, handed, res, queries, lastCursors, received>>

\* the body of the for-await loop is done with its cell and asks for the
\* next: the generator goes on after its yield
NextCell ==
  /\ UNCHANGED pgOthers
  /\ gpc = "yielded"
  /\ consumed' = Append(consumed, res.objects.items[k])
  /\ IF k < Len(res.objects.items)
     THEN /\ k' = k + 1
          /\ yielded' = Append(yielded, res.objects.items[k + 1])
          /\ UNCHANGED <<gpc, cursor>>
     ELSE /\ AfterPage(res)
          /\ UNCHANGED <<k, yielded>>
  /\ UNCHANGED <<scanKind, dedup, seenTx, handed, res, queries, lastCursors, received>>

\* the mapLimit over the page's objects resolves; then the cursor test
PageProcessed ==
  /\ UNCHANGED pgOthers
  /\ gpc = "page"
  /\ consumed' = consumed \o res.objects.items
  /\ AfterPage(res)
  /\ UNCHANGED <<scanKind, dedup, seenTx, handed, res, k, queries, lastCursors, received,
                 yielded>>

\* rpc throws (its retries are used up): main's catch ends the process
ScanFails ==
  /\ UNCHANGED pgOthers
  /\ gpc \in {"query", "yielded", "page"}
  /\ gpc' = "failed"
  /\ UNCHANGED <<scanKind, dedup, seenTx, handed, cursor, res, k, queries, lastCursors,
                 received, yielded, consumed>>

PgStart(kind, keepsSeen) ==
  /\ scanKind = kind
  /\ dedup = keepsSeen
  /\ seenTx = {}
  /\ handed = <<>>
  /\ gpc = "query"
  /\ cursor = NoCursor
  /\ res = [objects |-> NoObjects, last_cursor |-> NoCursor]
  /\ k = 0
  /\ queries = <<>>
  /\ lastCursors = <<>>
  /\ received = <<>>
  /\ yielded = <<>>
  /\ consumed = <<>>

\* the scans: getDaoLiveCells, the settlement scan of part_005 with seenTx,
\* the settlement scan of dao_withdraw2_reward.js without
PgInit ==
  \E kind \in {"get_cells", "get_transactions"}, keepsSeen \in BOOLEAN :
    /\ kind = "get_cells" => ~ keepsSeen
    /\ PgStart(kind, keepsSeen)

PgNext ==
  \/ Query
  \/ NextCell
  \/ PageProcessed
  \/ ScanFails

(***************************************************************************)
(* Part III: the worker pools (mapLimit over one page of a settlement      *)
(* scan, the windowed header fetch) and the caches getTx and               *)
(* getARByBlockNumberHex                                                   *)
(***************************************************************************)
\* ---- bytes and header fields
\* Buffer.readBigUInt64LE(offset): the 8 bytes from offset on, little-endian
RECURSIVE readLE(_, _, _)
readLE(bytes, first, n) ==
  IF n = 0 THEN 0
  ELSE bytes[first] + 256 * readLE(bytes, first + 1, n - 1)

readBigUInt64LE(buf, offset) == readLE(buf, offset + 1, 8)

\* the bytes of a u64 (below 2^16 in the model) written little-endian
u64le(n) == << n % 256, (n \div 256) % 256, 0, 0, 0, 0, 0, 0 >>

\* parseDaoAR(daoHex): the u64 at byte offset 8 of the dao field
parseDaoAR(dao) == readBigUInt64LE(dao, 8)

\* parseDaoS(daoHex): the u64 at byte offset 16 of the dao field
parseDaoS(dao) == readBigUInt64LE(dao, 16)

\* the 32-byte dao field (C, AR, S, U)
DaoField(C, AR, S, U) == u64le(C) \o u64le(AR) \o u64le(S) \o u64le(U)

\* ---- the chain the settlement scan reads (one deposit transaction, one
\* prepare transaction, two settlement transactions, one unknown hash)
\* accumulated rate in the header of block n
ChainAR(n) == 100 + 10 * n

\* treasury stock in the header of block n
ChainS(n) == IF n < 10 THEN 50 ELSE 100

ChainHeader(n) == [number |-> n, dao |-> DaoField(1000, ChainAR(n), ChainS(n), 20)]

\* SHANNONS_PER_CKB, amounts being counted in units of 10^6 shannons
SHANNONS_PER_CKB == 100

NoData == [kind |-> "undefined"]

Data(bytes) == [kind |-> "hex", bytes |-> bytes]

DepositData == Data(<< 0, 0, 0, 0, 0, 0, 0, 0 >>)

Cell(capacity, type) ==
  [capacity |-> capacity, lockArgs |-> 20, type |-> type, typeArgs |-> 0]

NoWrap == [known |-> FALSE, inputs |-> << >>, outputs |-> << >>,
           outputs_data |-> << >>, committed |-> FALSE, block_number |-> 0]

Wrap(inputs, outputs, data, bn) ==
  [known |-> TRUE, inputs |-> inputs, outputs |-> outputs,
   outputs_data |-> data, committed |-> TRUE, block_number |-> bn]

OutPoint(h, index) == [tx_hash |-> h, index |-> index]

TxHashes == {"g0", "d1", "p1", "w1", "w2", "u1"}

Blocks == 0 .. 5

\* the shapes of the settlement w1 and of the cell p1:0 it consumes
Shapes == {"normal", "daoOutput", "twoOutputs", "loss", "plainPrev", "depositPrev",
           "noData", "emptyData", "shortData"}

\* the data of the cell p1:0
PreparedData ==
  CASE shape = "depositPrev" -> DepositData
    [] shape = "emptyData"   -> Data(<< >>)
    [] shape = "shortData"   -> Data(<< 1, 0, 0, 0, 0, 0, 0 >>)
    [] OTHER                 -> Data(u64le(1))

\* what get_transaction returns for a hash
RemoteTx(h) ==
  CASE h = "g0" -> Wrap(<< >>, << Cell(40000, "none") >>, << Data(<< >>) >>, 0)
    [] h = "d1" -> Wrap(<< OutPoint("g0", 0) >>,
                        << Cell(11200, "dao"), Cell(12200, "dao"), Cell(10200, "dao") >>,
                        << DepositData, DepositData, DepositData >>, 1)
    [] h = "p1" -> Wrap(<< OutPoint("d1", 0), OutPoint("d1", 1), OutPoint("d1", 2) >>,
                        << Cell(11200, IF shape = "plainPrev" THEN "none" ELSE "dao"),
                           Cell(12200, "dao"), Cell(10200, "dao") >>,
                        IF shape = "noData" THEN << >>
                        ELSE << PreparedData, Data(u64le(1)), Data(u64le(1)) >>, 3)
    [] h = "w1" -> Wrap(<< OutPoint("p1", 0) >>,
                        CASE shape = "daoOutput"  -> << Cell(11400, "dao") >>
                          [] shape = "twoOutputs" -> << Cell(11400, "none"), Cell(6100, "none") >>
                          [] shape = "loss"       -> << Cell(11000, "none") >>
                          [] OTHER                -> << Cell(11400, "none") >>,
                        IF shape = "twoOutputs" THEN << Data(<< >>), Data(<< >>) >>
                        ELSE << Data(<< >>) >>, 4)
    [] h = "w2" -> Wrap(<< OutPoint("p1", 1), OutPoint("p1", 2) >>,
                        << Cell(12600, "none") >>, << Data(<< >>) >>, 5)
    [] OTHER    -> NoWrap

\* ---- DAO predicates and capacity
isDaoType(type) == type = "dao"

\* isPrepareDaoData(dataHex): !!dataHex && dataHex !== '0x0000000000000000'
isPrepareDaoData(data) == data.kind = "hex" /\ data # DepositData

\* (mutant) the outputs of the settlement are not looked at
outputsContainDaoCellNever(tx) == FALSE

outputsContainDaoCell(tx) ==
  \E n \in 1 .. Len(tx.outputs) : isDaoType(tx.outputs[n].type)

hexBytesLen(data) == IF data.kind = "hex" THEN Len(data.bytes) ELSE 0

\* (mutant) the args of a script are not charged
scriptBytesForOccupiedNoArgs(argsLen) == 32 + 1

scriptBytesForOccupied(argsLen) == 32 + 1 + argsLen

occupiedBytes(output, data) ==
  8 + scriptBytesForOccupied(output.lockArgs)
    + (IF output.type # "none" THEN scriptBytesForOccupied(output.typeArgs) ELSE 0)
    + hexBytesLen(data)

occupiedCapacity(output, data) == occupiedBytes(output, data) * SHANNONS_PER_CKB

freeCapacity(output, data) == output.capacity - occupiedCapacity(output, data)

\* parsePrepareBlockNumberHex throws unless the data is 8 bytes
parsePrepareThrows(data) == data.kind # "hex" \/ Len(data.bytes) # 8

parsePrepareBlockNumberHex(data) == readBigUInt64LE(data.bytes, 0)

\* (free * AR_j) / AR_i - free
\* the quotient of two BigInts: rounded towards zero
BigIntDiv(a, b) == IF a >= 0 THEN a \div b ELSE -((-a) \div b)

RewardOf(free, ARto, ARfrom) == BigIntDiv(free * ARto, ARfrom) - free

\* element n (from 0) of a list, as JavaScript reads it
HasIndex(list, n) == n >= 0 /\ n < Len(list)

\* ---- one invocation of the callback, cut at its awaits
NoCall == [pc |-> "none", wait |-> FALSE, hash |-> "", bn |-> 0, inIdx |-> 0,
           prepareInputs |-> 0, txRewardSum |-> 0, AR_i |-> 0]

DoneCall == [NoCall EXCEPT !.pc = "done"]

\* the callback reaches "await getTx(hash)"
LookupTx(pcv, hash, c) ==
  [kind |-> "lookup", call |-> [c EXCEPT !.pc = pcv, !.hash = hash],
   add |-> FALSE, amount |-> 0, count |-> 0]

\* the callback reaches "await getARByBlockNumberHex(bn)"
LookupAR(pcv, bn, c) ==
  [kind |-> "lookup", call |-> [c EXCEPT !.pc = pcv, !.bn = bn],
   add |-> FALSE, amount |-> 0, count |-> 0]

\* the callback returns; add: totalReward += amount; count: withdraw2Txs += count
Return(add, amount, count) ==
  [kind |-> "return", call |-> DoneCall, add |-> add, amount |-> amount, count |-> count]

Skip == Return(FALSE, 0, 0)

Throw == [kind |-> "throw", call |-> DoneCall, add |-> FALSE, amount |-> 0, count |-> 0]

\* part_005, the loop over tx.inputs from input c.inIdx on, up to its next await
InputLoop(tx, c) ==
  IF c.inIdx >= Len(tx.inputs)
  THEN IF c.prepareInputs = 0 THEN Skip ELSE Return(TRUE, c.txRewardSum, 1)
  ELSE LookupTx("prev", tx.inputs[c.inIdx + 1].tx_hash, c)

NextInput(tx, c) == InputLoop(tx, [c EXCEPT !.inIdx = c.inIdx + 1])

\* part_005, the callback after "await getTx(txHash)"
PerInputAfterTx(wrap, c) ==
  IF ~ wrap.known THEN Skip ELSE InputLoop(wrap, c)

\* part_005, the callback after "await getTx(prev.tx_hash)"
PerInputAfterPrev(tx, c, prevWrap) ==
  LET prev == tx.inputs[c.inIdx + 1]
  IN IF ~ prevWrap.known \/ Len(prevWrap.outputs) = 0 THEN NextInput(tx, c)
     ELSE IF ~ HasIndex(prevWrap.outputs, prev.index) THEN NextInput(tx, c)
     ELSE LET prevOut == prevWrap.outputs[prev.index + 1]
              prevData == IF HasIndex(prevWrap.outputs_data, prev.index)
                          THEN prevWrap.outputs_data[prev.index + 1] ELSE NoData
          IN IF ~ isDaoType(prevOut.type) THEN NextInput(tx, c)
             ELSE IF ~ isPrepareDaoData(prevData) THEN NextInput(tx, c)
             ELSE IF ~ prevWrap.committed THEN NextInput(tx, c)
             ELSE IF parsePrepareThrows(prevData) THEN Throw
             ELSE LookupAR("arI", parsePrepareBlockNumberHex(prevData), c)

\* part_005, the callback after "await getARByBlockNumberHex(depositBnHex)"
PerInputAfterARi(c, prevWrap, ar) ==
  LookupAR("arJ", prevWrap.block_number, [c EXCEPT !.AR_i = ar])

\* part_005, the callback after "await getARByBlockNumberHex(prepareBnHex)"
PerInputAfterARj(tx, c, prevWrap, ar) ==
  LET prev == tx.inputs[c.inIdx + 1]
      prevOut == prevWrap.outputs[prev.index + 1]
      prevData == prevWrap.outputs_data[prev.index + 1]
      free == freeCapacity(prevOut, prevData)
      reward == RewardOf(free, ar, c.AR_i)
  IN IF free <= 0 THEN NextInput(tx, c)
     ELSE IF reward <= 0 THEN NextInput(tx, c)
     ELSE NextInput(tx, [c EXCEPT !.prepareInputs = c.prepareInputs + 1,
                                  !.txRewardSum = c.txRewardSum + reward])

\* dao_withdraw2_reward.js, the callback after "await getTx(txHash)"
StrictAfterTx(wrap, c) ==
  IF ~ wrap.known THEN Skip
  ELSE IF outputsContainDaoCell(wrap) THEN Skip
  ELSE IF Len(wrap.inputs) # 1 THEN Skip
  ELSE IF Len(wrap.outputs) # 1 THEN Skip
  ELSE LookupTx("prev", wrap.inputs[1].tx_hash, c)

\* dao_withdraw2_reward.js, the callback after "await getTx(prev.tx_hash)"
StrictAfterPrev(tx, prevWrap) ==
  LET prev == tx.inputs[1]
  IN IF ~ prevWrap.known \/ Len(prevWrap.outputs) = 0 THEN Skip
     ELSE IF ~ HasIndex(prevWrap.outputs, prev.index) THEN Skip
     ELSE LET prevOut == prevWrap.outputs[prev.index + 1]
              prevData == IF HasIndex(prevWrap.outputs_data, prev.index)
                          THEN prevWrap.outputs_data[prev.index + 1] ELSE NoData
              delta == tx.outputs[1].capacity - prevOut.capacity
          IN IF ~ isDaoType(prevOut.type) THEN Skip
             ELSE IF prevData.kind # "hex" \/ prevData = DepositData THEN Skip
             ELSE Return(delta > 0, delta, 1)

\* the accumulated rate getARByBlockNumberHex(bn) resolves to
HeaderAR(bn) == parseDaoAR(ChainHeader(bn).dao)

\* the callback of item h from the await it is suspended at (c.pc)
\* to the next, got being the value the awaited lookup resolved to
Continue(v, h, c, got) ==
  LET tx == IF c.pc = "tx" THEN got ELSE RemoteTx(h)
      prevWrap == IF c.pc = "prev" THEN got ELSE RemoteTx(c.hash)
  IN CASE v = "strict" /\ c.pc = "tx"     -> StrictAfterTx(tx, c)
       [] v = "strict" /\ c.pc = "prev"   -> StrictAfterPrev(tx, prevWrap)
       [] v = "perInput" /\ c.pc = "tx"   -> PerInputAfterTx(tx, c)
       [] v = "perInput" /\ c.pc = "prev" -> PerInputAfterPrev(tx, c, prevWrap)
       [] v = "perInput" /\ c.pc = "arI"  -> PerInputAfterARi(c, prevWrap, got)
       [] v = "perInput" /\ c.pc = "arJ"  -> PerInputAfterARj(tx, c, prevWrap, got)
       [] OTHER                           -> Skip

\* ---- the pool
Workers == 1 .. limit

TxLookup(c) == c.pc \in {"tx", "prev"}

ARLookup(c) == c.pc \in {"arI", "arJ"}

\* (mutant) the Map is never found to hold the key
CachedNever(c, txc, arc) == FALSE

\* txCache.has(txHash) / arCache.has(bnHex) at the moment of the call
Cached(c, txc, arc) ==
  \/ TxLookup(c) /\ c.hash \in txc
  \/ ARLookup(c) /\ c.bn \in arc

\* txCache.set(txHash, v) / arCache.set(bnHex, ar) once the request of call c
\* has returned; a lookup served from the Map sets nothing
Stored(c, values) ==
  [tx |-> IF TxLookup(c) /\ c.wait THEN (c.hash :> RemoteTx(c.hash)) @@ values.tx
          ELSE values.tx,
   ar |-> IF ARLookup(c) /\ c.wait THEN (c.bn :> HeaderAR(c.bn)) @@ values.ar
          ELSE values.ar]

\* what the awaited lookup of call c resolves to: the response of its request,
\* or txCache.get(txHash) / arCache.get(bnHex)
Resolved(c, values) ==
  IF TxLookup(c) THEN (IF c.wait THEN RemoteTx(c.hash) ELSE values.tx[c.hash])
  ELSE IF ARLookup(c) THEN (IF c.wait THEN HeaderAR(c.bn) ELSE values.ar[c.bn])
  ELSE ChainHeader(c.bn)

\* the lookup the callback suspends at: a miss sends the request
Suspend(c, txc, arc) == [c EXCEPT !.wait = ~ Cached(c, txc, arc)]

\* get_transaction requests in flight once call c has suspended
SentTx(c, inflight) ==
  IF TxLookup(c) /\ c.wait THEN [inflight EXCEPT ![c.hash] = @ + 1] ELSE inflight

\* get_header_by_number requests of getARByBlockNumberHex in flight
SentAR(c, inflight) ==
  IF ARLookup(c) /\ c.wait THEN [inflight EXCEPT ![c.bn] = @ + 1] ELSE inflight

\* the response of the request call c waits for has been taken
TakenTx(c, inflight) ==
  IF TxLookup(c) /\ c.wait THEN [inflight EXCEPT ![c.hash] = @ - 1] ELSE inflight

TakenAR(c, inflight) ==
  IF ARLookup(c) /\ c.wait THEN [inflight EXCEPT ![c.bn] = @ - 1] ELSE inflight

\* the first await of fn(arr[idx], idx)
FirstLookup(v, item) ==
  IF v = "window" THEN [NoCall EXCEPT !.pc = "hdr", !.bn = item, !.wait = TRUE]
  ELSE [NoCall EXCEPT !.pc = "tx", !.hash = item]

\* (mutant) the running total is overwritten with the amount
AccumulateOverwrites(total, amount) == amount

\* totalReward += amount
Accumulate(total, amount) == total + amount

\* (mutant) the worker does not await fn before it takes the next index
WorkerNotAwaiting(idx) == [st |-> "pull", idx |-> idx]

\* the worker awaits fn(arr[idx], idx)
WorkerAfterCall(idx) == [st |-> "await", idx |-> idx]

WorkerIdle == [st |-> "pull", idx |-> 0]

WorkerExit == [st |-> "exit", idx |-> 0]

NoWorker == [st |-> "none", idx |-> 0]

EmptySlot == [kind |-> "empty", number |-> 0]

HeaderSlot(n) == [kind |-> "header", number |-> ChainHeader(n).number]

\* a worker takes the next index: const idx = i++; if (idx >= arr.length) return;
\* await fn(arr[idx], idx), fn running up to its first await. The workers run
\* the same closure and Array.from starts them in order: of the workers at the
\* head of their loop the one with the lowest number stands for whichever runs
\* next
Pull(w) ==
  /\ UNCHANGED plOthers
  /\ plpc = "running"
  /\ w \in Workers
  /\ wk[w].st = "pull"
  /\ \A x \in 1 .. (w - 1) : wk[x].st # "pull"
  /\ poolI' = poolI + 1
  /\ IF poolI >= Len(arr)
     THEN /\ wk' = [wk EXCEPT ![w] = WorkerExit]
          /\ UNCHANGED << call, invoked, inflightTx >>
     ELSE LET c == Suspend(FirstLookup(variant, arr[poolI + 1]), txCache, arCache)
          IN /\ wk' = [wk EXCEPT ![w] = WorkerAfterCall(poolI + 1)]
             /\ call' = [call EXCEPT ![poolI + 1] = c]
             /\ invoked' = [invoked EXCEPT ![poolI + 1] = @ + 1]
             /\ inflightTx' = SentTx(c, inflightTx)
  /\ UNCHANGED << variant, shape, arr, limit, plpc, txCache, arCache, cacheValues,
                  inflightAR, totalReward, withdraw2Txs, out >>

\* the worker that awaits call idx goes back to the head of its loop
Resumed(workers, idx) ==
  [w \in DOMAIN workers |->
     IF workers[w].st = "await" /\ workers[w].idx = idx THEN WorkerIdle ELSE workers[w]]

\* the lookup call idx is suspended at resolves (its response arrives, or the
\* value came from the cache) and the callback runs to its next await or its end
Advance(idx) ==
  /\ UNCHANGED plOthers
  /\ plpc = "running"
  /\ idx \in 1 .. Len(arr)
  /\ call[idx].pc \in {"tx", "prev", "arI", "arJ", "hdr"}
  /\ LET c == call[idx]
         txc == IF TxLookup(c) /\ c.wait THEN txCache \cup {c.hash} ELSE txCache
         arc == IF ARLookup(c) /\ c.wait THEN arCache \cup {c.bn} ELSE arCache
         o == Continue(variant, arr[idx], c, Resolved(c, cacheValues))
         nc == IF o.kind = "lookup" THEN Suspend(o.call, txc, arc) ELSE DoneCall
     IN /\ txCache' = txc
        /\ arCache' = arc
        /\ cacheValues' = Stored(c, cacheValues)
        /\ call' = [call EXCEPT ![idx] = nc]
        /\ inflightTx' = SentTx(nc, TakenTx(c, inflightTx))
        /\ inflightAR' = SentAR(nc, TakenAR(c, inflightAR))
        /\ totalReward' = IF o.add THEN Accumulate(totalReward, o.amount) ELSE totalReward
        /\ withdraw2Txs' = withdraw2Txs + o.count
        /\ out' = IF c.pc = "hdr" THEN [out EXCEPT ![idx] = HeaderSlot(c.bn)] ELSE out
        /\ wk' = IF o.kind = "return" THEN Resumed(wk, idx) ELSE wk
        /\ plpc' = IF o.kind = "throw" THEN "failed" ELSE plpc
  /\ UNCHANGED << variant, shape, arr, limit, poolI, invoked >>

\* rpc gives up on the request call idx waits for: the rejection passes through
\* the callback, its worker and Promise.all, and the run ends
RpcThrows(idx) ==
  /\ UNCHANGED plOthers
  /\ plpc = "running"
  /\ idx \in 1 .. Len(arr)
  /\ call[idx].pc \in {"tx", "prev", "arI", "arJ", "hdr"}
  /\ call[idx].wait
  /\ plpc' = "failed"
  /\ inflightTx' = TakenTx(call[idx], inflightTx)
  /\ inflightAR' = TakenAR(call[idx], inflightAR)
  /\ call' = [call EXCEPT ![idx] = DoneCall]
  /\ UNCHANGED << variant, shape, arr, limit, poolI, wk, invoked, txCache, arCache,
                  cacheValues, totalReward, withdraw2Txs, out >>

\* await Promise.all(workers): every worker has returned
Resolve ==
  /\ UNCHANGED plOthers
  /\ plpc = "running"
  /\ \A w \in Workers : wk[w].st = "exit"
  /\ plpc' = "resolved"
  /\ UNCHANGED << variant, shape, arr, limit, poolI, wk, call, invoked, txCache, arCache,
                  cacheValues, inflightTx, inflightAR, totalReward, withdraw2Txs, out >>

\* the hashes a page of the indexer can hand to the pool
PageHashes == {"w1", "w2", "u1"}

Slots == 1 .. MaxArr

\* no hash twice (part_005 filters the page through seenTx)
Distinct(list) == \A m, n \in 1 .. Len(list) : m # n => list[m] # list[n]

ArrOf(v) ==
  LET lists == UNION {[1 .. n -> PageHashes] : n \in 0 .. MaxArr}
  IN CASE v = "strict"   -> lists
       [] v = "perInput" -> {l \in lists : Distinct(l)}
       [] OTHER          -> {[m \in 1 .. n |-> m] : n \in 1 .. MaxArr}

PlStart(v, items, n) ==
  /\ variant = v
  /\ arr = items
  /\ limit = n
  /\ poolI = 0
  /\ wk = [w \in 1 .. MaxLimit |-> IF w <= n THEN WorkerIdle ELSE NoWorker]
  /\ call = [idx \in Slots |-> NoCall]
  /\ invoked = [idx \in Slots |-> 0]
  /\ txCache = {}
  /\ arCache = {}
  /\ cacheValues = [tx |-> << >>, ar |-> << >>]
  /\ inflightTx = [h \in TxHashes |-> 0]
  /\ inflightAR = [b \in Blocks |-> 0]
  /\ totalReward = 0
  /\ withdraw2Txs = 0
  /\ out = [idx \in Slots |-> EmptySlot]
  /\ plpc = "running"

\* the shapes that can tell on a page: those of w1 and of the cell p1:0 when
\* the page holds w1, the missing outputs_data of p1 when it holds w2
ShapesFor(v, items) ==
  IF v = "window" THEN {"normal"}
  ELSE IF \E n \in 1 .. Len(items) : items[n] = "w1" THEN Shapes
  ELSE IF \E n \in 1 .. Len(items) : items[n] = "w2" THEN {"normal", "noData"}
  ELSE {"normal"}

PlInit ==
  \E v \in {"strict", "perInput", "window"} :
    \E items \in ArrOf(v) :
      \E n \in 0 .. MaxLimit :
        \E sh \in ShapesFor(v, items) :
          PlStart(v, items, n) /\ shape = sh

PlNext ==
  \/ \E w \in 1 .. MaxLimit : Pull(w)
  \/ \E idx \in Slots : Advance(idx)
  \/ \E idx \in Slots : RpcThrows(idx)
  \/ Resolve

(***************************************************************************)
(* Part IV: rpc                                                            *)
(***************************************************************************)
\* how one attempt ends: a result, the abort of the timeout, a rejected
\* fetch, a response with an error object
AttemptKinds == {"ok", "timeout", "transport", "error"}

Outcome(kind, n) == [kind |-> kind, attempt |-> n]

NoOutcome == [kind |-> "none", attempt |-> 0]

\* (mutant) the same delay after every attempt
DelayFlat(form, n) == 300

\* setTimeout(r, 300 * i) / setTimeout(r, 200 * attempt)
Delay(form, n) == IF form = "lastErr" THEN 300 * n ELSE 200 * n

\* one pass of the loop body: the fetch of this attempt ends; a result is
\* returned, an error is caught (rpcSingle and rpcBatch have neither loop nor
\* catch: the error leaves the function)
Fetch ==
  /\ UNCHANGED rpOthers
  /\ rpcpc = "fetch"
  /\ \E kind \in AttemptKinds :
       LET o == Outcome(kind, attempt)
       IN /\ attempts' = Append(attempts, o)
          /\ IF kind = "ok"
             THEN /\ rpcResult' = o
                  /\ rpcpc' = "returned"
                  /\ UNCHANGED << lastErr, rpcThrown >>
             ELSE IF rpcForm = "single" \/ (rpcForm = "rethrow" /\ attempt = retries)
             THEN /\ rpcThrown' = o
                  /\ rpcpc' = "threw"
                  /\ UNCHANGED << lastErr, rpcResult >>
             ELSE /\ lastErr' = IF rpcForm = "lastErr" THEN o ELSE lastErr
                  /\ rpcpc' = "sleep"
                  /\ UNCHANGED << rpcResult, rpcThrown >>
  /\ UNCHANGED << rpcForm, retries, attempt, delays >>

\* the delay after a failed attempt has passed: the loop variable is
\* incremented and tested; after the loop, throw lastErr
Sleep ==
  /\ UNCHANGED rpOthers
  /\ rpcpc = "sleep"
  /\ delays' = Append(delays, Delay(rpcForm, attempt))
  /\ attempt' = attempt + 1
  /\ IF attempt + 1 <= retries
     THEN /\ rpcpc' = "fetch"
          /\ UNCHANGED rpcThrown
     ELSE /\ rpcpc' = "threw"
          /\ rpcThrown' = lastErr
  /\ UNCHANGED << rpcForm, retries, lastErr, rpcResult, attempts >>

RpStart(form, n) ==
  /\ rpcForm = form
  /\ retries = n
  /\ attempt = 1
  /\ rpcpc = "fetch"
  /\ lastErr = NoOutcome
  /\ rpcResult = NoOutcome
  /\ rpcThrown = NoOutcome
  /\ attempts = << >>
  /\ delays = << >>

\* rpcSingle and rpcBatch take no retries option: they make one attempt
RpInit ==
  \/ \E form \in {"lastErr", "rethrow"} : \E n \in 1 .. MaxRetries : RpStart(form, n)
  \/ RpStart("single", 1)

RpNext ==
  \/ Fetch
  \/ Sleep

(***************************************************************************)
(* Part V: the unclaimed-reward scans over the live DAO cells              *)
(***************************************************************************)
\* SHANNONS_PER_BYTE of the script with its own sizing, in the model's unit
SHANNONS_PER_BYTE == 100

\* scriptSizeBytes(script): 4 + 12 + 32 + 1 + 4 + argsLen
scriptSizeBytes(argsLen) == 4 + 12 + 32 + 1 + 4 + argsLen

\* cellSizeBytes(output, dataHex)
cellSizeBytes(output, data) ==
  LET lockSize == scriptSizeBytes(output.lockArgs)
      typeSize == IF output.type # "none" THEN 1 + scriptSizeBytes(output.typeArgs) ELSE 1
      dataSize == 4 + hexBytesLen(data)
  IN 4 + 8 + lockSize + typeSize + dataSize + 8

\* occupiedCapacity of the script with its own sizing
occupiedCapacitySized(output, data) == cellSizeBytes(output, data) * SHANNONS_PER_BYTE

\* const free = cap - occ, with the occupiedCapacity the script uses
FreeOf(form, c) ==
  IF form = "imported" THEN c.output.capacity - occupiedCapacity(c.output, c.output_data)
  ELSE c.output.capacity - occupiedCapacitySized(c.output, c.output_data)

\* a live cell as get_cells returns it
LiveCell(capacity, data, bn) ==
  [output |-> Cell(capacity, "dao"), output_data |-> data, block_number |-> bn]

\* a deposit of 102 CKB under a lock script with empty args, created in the
\* block whose AR is 200
EmptyArgsDeposit ==
  [output |-> [Cell(10200, "dao") EXCEPT !.lockArgs = 0],
   output_data |-> DepositData, block_number |-> 10]

\* the live cells of the modelled chain: under-funded, with exactly the
\* occupied capacity, well funded; deposits, prepare cells of a deposit at
\* height 1, a cell without data; created before and after the indexer tip
\* the scan read at its start
LiveCells ==
  { LiveCell(cap, data, bn) :
      cap \in {10100, 10200, 17000},
      data \in {DepositData, Data(u64le(1)), Data(<< >>)},
      bn \in {2, 3, 5} }
  \cup {EmptyArgsDeposit}

\* height of the indexer tip when the scan starts
TipHeight == 3

\* the height of the indexer tip when the scan starts: TipHeight, among the
\* blocks of the cells, or, when the list holds the deposit of block 10, the
\* block after it (with AR 210 and S 100)
TipHeights(list) ==
  IF \E n \in 1 .. Len(list) : list[n] = EmptyArgsDeposit
  THEN {TipHeight + 8} ELSE {TipHeight}

\* (mutant) the deposit's own rate is used for the tip's
DepositRewardOwnRate(free, ARtip, ARi) == RewardOf(free, ARi, ARi)

\* const reward = (free * AR) / AR_i - free
DepositReward(free, ARtip, ARi) == RewardOf(free, ARtip, ARi)

\* (mutant) the two rates change places
PrepareRewardInverted(free, ARj, ARi) == RewardOf(free, ARi, ARj)

\* const reward = (free * AR_j) / AR_i - free
PrepareReward(free, ARj, ARi) == RewardOf(free, ARj, ARi)

\* if (free <= 0n) continue: only the script with its own sizing has it
SkipsNoFree(form, free) == form = "sized" /\ free <= 0

NoEval == [evaluated |-> FALSE, free |-> 0, ARto |-> 0, ARfrom |-> 0, reward |-> 0]

Eval(free, ARto, ARfrom, reward) ==
  [evaluated |-> TRUE, free |-> free, ARto |-> ARto, ARfrom |-> ARfrom, reward |-> reward]

\* what the body of the for-await loop does with cell c
CellOutcome(form, c, ARtip) ==
  LET free == FreeOf(form, c)
  IN IF SkipsNoFree(form, free)
     THEN [kind |-> "skip", deposit |-> 0, prepare |-> 0, eval |-> NoEval]
     ELSE IF c.output_data = DepositData
     THEN LET ARi == HeaderAR(c.block_number)
              reward == DepositReward(free, ARtip, ARi)
          IN [kind |-> "deposit", deposit |-> IF reward > 0 THEN reward ELSE 0,
              prepare |-> 0, eval |-> Eval(free, ARtip, ARi, reward)]
     ELSE IF parsePrepareThrows(c.output_data)
     THEN [kind |-> "throw", deposit |-> 0, prepare |-> 0, eval |-> NoEval]
     ELSE LET ARi == HeaderAR(parsePrepareBlockNumberHex(c.output_data))
              ARj == HeaderAR(c.block_number)
              reward == PrepareReward(free, ARj, ARi)
          IN [kind |-> "prepare", deposit |-> 0,
              prepare |-> IF reward > 0 THEN reward ELSE 0,
              eval |-> Eval(free, ARj, ARi, reward)]

\* one turn of the for-await loop: the next live cell, its lookups, its reward
ProcessCell ==
  /\ UNCHANGED unOthers
  /\ upc = "scan"
  /\ uIdx < Len(cells)
  /\ LET c == cells[uIdx + 1]
         o == CellOutcome(uForm, c, tipAR)
     IN /\ uIdx' = uIdx + 1
        /\ unclaimedDeposit' = unclaimedDeposit + o.deposit
        /\ unclaimedPrepare' = unclaimedPrepare + o.prepare
        /\ evals' = Append(evals, [cell |-> c, kind |-> o.kind, deposit |-> o.deposit,
                                   prepare |-> o.prepare, eval |-> o.eval])
        /\ upc' = IF o.kind = "throw" THEN "failed" ELSE "scan"
  /\ UNCHANGED << uForm, cells, tipAR, tipS, burnReport >>

NoBurnReport == [kind |-> "none", burn |-> 0]

\* (mutant) the burn is reported without the comparison
BurnReportUnchecked(unclaimedTotal, S) == [kind |-> "burn", burn |-> S - unclaimedTotal]

\* if (unclaimedTotal <= S) { burn = S - unclaimedTotal; log } else { error }
BurnReport(unclaimedTotal, S) ==
  IF unclaimedTotal <= S
  THEN [kind |-> "burn", burn |-> S - unclaimedTotal]
  ELSE [kind |-> "sanity", burn |-> 0]

\* getDaoLiveCells is exhausted: the totals are reported
ReportTotals ==
  /\ UNCHANGED unOthers
  /\ upc = "scan"
  /\ uIdx = Len(cells)
  /\ upc' = "done"
  /\ burnReport' = BurnReport(unclaimedDeposit + unclaimedPrepare, tipS)
  /\ UNCHANGED << uForm, cells, tipAR, tipS, uIdx, unclaimedDeposit, unclaimedPrepare,
                  evals >>

UnStart(form, list, tipHeight) ==
  /\ uForm = form
  /\ cells = list
  /\ tipAR = HeaderAR(tipHeight)
  /\ tipS = parseDaoS(ChainHeader(tipHeight).dao)
  /\ burnReport = NoBurnReport
  /\ uIdx = 0
  /\ unclaimedDeposit = 0
  /\ unclaimedPrepare = 0
  /\ evals = << >>
  /\ upc = "scan"

UnInit ==
  \E form \in {"imported", "sized"} :
    \E list \in UNION {[1 .. n -> LiveCells] : n \in 0 .. MaxCells} :
      \E tipHeight \in TipHeights(list) : UnStart(form, list, tipHeight)

UnNext ==
  \/ ProcessCell
  \/ ReportTotals

(***************************************************************************)
(* Part VI: the miner-secondary scan over the block headers, and the       *)
(* secondary-issuance estimate from the tip header                         *)
(***************************************************************************)
\* SECONDARY_EPOCH_REWARD, counted in units of 10^11 shannons
SECONDARY_EPOCH_REWARD == 613

\* ---- BigInt values wider than the model's integers: their bytes, least
\* significant first
Bytes(n, width) == [j \in 1 .. width |-> (n \div (256 ^ (j - 1))) % 256]

\* e >> bits, for a whole number of bytes
ShiftRight(e, bits) == SubSeq(e, (bits \div 8) + 1, Len(e))

\* e & mask, for a mask of `bits` low one-bits
LowBits(e, bits) == SubSeq(e, 1, Min(bits \div 8, Len(e)))

\* Number(x)
ToNumber(e) == readLE(e, 1, Len(e))

\* (mutant) the index is taken from the bits above bit 32
parseEpochPackedShifted(e) ==
  [number |-> ToNumber(LowBits(e, 24)),
   index  |-> ToNumber(LowBits(ShiftRight(e, 32), 16)),
   length |-> ToNumber(ShiftRight(e, 40))]

\* parseEpochPacked(epochHex): epoch = (length << 40) | (index << 24) | number
parseEpochPacked(e) ==
  [number |-> ToNumber(LowBits(e, 24)),
   index  |-> ToNumber(LowBits(ShiftRight(e, 24), 16)),
   length |-> ToNumber(ShiftRight(e, 40))]

\* parseDao(daoHex) throws unless the field has 64 hex digits
parseDaoThrows(dao) == Len(dao) # 32

\* (mutant) U is read from the third segment
parseDaoThirdSeg(dao) == [C |-> readLE(dao, 1, 8), U |-> readLE(dao, 17, 8)]

\* parseDao(daoHex): C = u64le(seg(0)), U = u64le(seg(3))
parseDao(dao) == [C |-> readLE(dao, 1, 8), U |-> readLE(dao, 25, 8)]

\* buf.readBigUInt64LE(offset) throws when the buffer ends before offset + 8
readThrows(buf, offset) == offset + 8 > Len(buf)

parseDaoARThrows(dao) == readThrows(dao, 8)

parseDaoSThrows(dao) == readThrows(dao, 16)

\* (mutant) every index gets the quotient
perBlockSecondaryFlat(epochLength, epochIndex) == SECONDARY_EPOCH_REWARD \div epochLength

\* perBlockSecondary(epochLength, epochIndex), for epochLength > 0
perBlockSecondary(epochLength, epochIndex) ==
  LET q == SECONDARY_EPOCH_REWARD \div epochLength
      m == SECONDARY_EPOCH_REWARD % epochLength
  IN IF epochIndex < m THEN q + 1 ELSE q

\* ---- the chain the scan reads: epochs of epochLen blocks, the header at
\* fault.at damaged in the way fault.kind says
NoFault == [at |-> -1, kind |-> "none"]

Faults ==
  {NoFault} \cup { [at |-> h, kind |-> kd] : h \in 0 .. MaxTip, kd \in {"length0", "shortDao", "zeroC"} }

ChainC(h) == IF fault = [at |-> h, kind |-> "zeroC"] THEN 0 ELSE 100 + 10 * h

ChainU(h) == 20 + 7 * h

ChainEpoch(h) ==
  [number |-> h \div epochLen, index |-> h % epochLen,
   length |-> IF fault = [at |-> h, kind |-> "length0"] THEN 0 ELSE epochLen]

\* the epoch field of a header: (length << 40) | (index << 24) | number
EpochField(ep) == Bytes(ep.number, 3) \o Bytes(ep.index, 2) \o Bytes(ep.length, 3)

\* what get_header_by_number returns for height h
SecondaryHeader(h) ==
  [number |-> h,
   epoch  |-> EpochField(ChainEpoch(h)),
   dao    |-> LET whole == DaoField(ChainC(h), ChainAR(h), 50, ChainU(h))
              IN IF fault = [at |-> h, kind |-> "shortDao"]
                 THEN SubSeq(whole, 1, 31) ELSE whole]

\* (mutant) the payout of a block is computed from its own header
PrevOfCurrent(prev, current) == current

\* the header whose dao field pays block i: prevHeader
PrevOf(prev, current) == prev

\* (mutant) the failure is passed over and main goes on from where it is
ExitIgnored(at) == at

\* process.exit(1), from main's position `at`
Exit(at) == "failed"

\* a slot of `out` no header has been stored in
NoHeader == [number |-> -1, epoch |-> << >>, dao |-> << >>]

\* the for-loop over the window's headers from position n on: the totals it
\* ends with, or the failure that ends the process
RECURSIVE ProcessWindow(_, _, _, _, _)
ProcessWindow(headers, n, prev, total, added) ==
  IF n > Len(headers)
  THEN [failed |-> FALSE, prev |-> prev, total |-> total, added |-> added]
  ELSE LET curHeader == headers[n]
           dao == PrevOf(prev, curHeader).dao
           ep == parseEpochPacked(curHeader.epoch)
       IN IF curHeader = NoHeader \/ parseDaoThrows(dao) \/ ep.length <= 0
             \/ parseDao(dao).C = 0
          THEN [failed |-> TRUE, prev |-> prev, total |-> total, added |-> added]
          ELSE LET s_i == perBlockSecondary(ep.length, ep.index)
                   miner_i == (s_i * parseDao(dao).U) \div parseDao(dao).C
               IN ProcessWindow(headers, n + 1, curHeader, total + miner_i,
                                Append(added, [i |-> curHeader.number, s |-> s_i,
                                               miner |-> miner_i]))

\* const winTo = Math.min(end, winFrom + windowSize - 1)
WinTo(winFrom, end, size) == Min(end, winFrom + size - 1)

\* (mutant) the header is stored behind the headers that arrived before it
StoreHeaderPushed(array, n, winFrom, h) ==
  LET free == {slot \in 1 .. Len(array) : array[slot] = NoHeader}
  IN IF free = {} THEN array
     ELSE [array EXCEPT ![CHOOSE slot \in free : \A other \in free : slot <= other] = h]

\* out[n - winFrom] = h
StoreHeader(array, n, winFrom, h) == [array EXCEPT ![n - winFrom + 1] = h]

\* worker(): const n = next++; if (n > winTo) return; await getHeaderByNumber(n)
WorkerTakes(n, winTo) ==
  IF n > winTo THEN [st |-> "exit", n |-> 0] ELSE [st |-> "await", n |-> n]

\* no window is open: the while loop is over, or main has ended
NoWindow(conc) ==
  [out |-> << >>, next |-> 0, wk |-> [w \in 1 .. conc |-> WorkerTakes(1, 0)],
   asked |-> << >>, windows |-> << >>]

\* the head of the while loop for cur = winFrom: the array out, and the workers
\* started by Array.from, each running up to its first await
OpenWindow(winFrom, end, size, conc) ==
  IF winFrom > end THEN NoWindow(conc)
  ELSE LET winTo == WinTo(winFrom, end, size)
       IN [out |-> [slot \in 1 .. (winTo - winFrom + 1) |-> NoHeader],
           next |-> winFrom + conc,
           wk |-> [w \in 1 .. conc |-> WorkerTakes(winFrom + w - 1, winTo)],
           asked |-> [slot \in 1 .. Min(conc, winTo - winFrom + 1) |-> winFrom + slot - 1],
           windows |-> << [from |-> winFrom, to |-> winTo] >>]

\* the header a worker awaits arrives: it is stored and the worker takes the
\* next height, or returns
HeaderArrives(w) ==
  /\ UNCHANGED msOthers
  /\ mspc = "window"
  /\ w \in DOMAIN winWk
  /\ winWk[w].st = "await"
  /\ LET n == winWk[w].n
         t == WorkerTakes(winNext, WinTo(cur, msEnd, windowSize))
     IN /\ winOut' = StoreHeader(winOut, n, cur, SecondaryHeader(n))
        /\ winNext' = winNext + 1
        /\ winWk' = [winWk EXCEPT ![w] = t]
        /\ fetched' = IF t.st = "await" THEN Append(fetched, t.n) ELSE fetched
  /\ UNCHANGED << msForm, msStart, msEnd, windowSize, epochLen, fault, prevHeader, cur,
                  totalMinerSecondary, mspc, reported, msAdded, msWindows, msConcurrency >>

\* Promise.all has resolved: the window's headers are processed in order, and
\* the while loop goes to its next window
Window ==
  /\ UNCHANGED msOthers
  /\ mspc = "window"
  /\ cur <= msEnd
  /\ \A w \in DOMAIN winWk : winWk[w].st = "exit"
  /\ LET winTo == WinTo(cur, msEnd, windowSize)
         r == ProcessWindow(winOut, 1, prevHeader, totalMinerSecondary, msAdded)
         pcAfter == IF r.failed THEN Exit(mspc) ELSE "window"
         curAfter == IF r.failed THEN cur ELSE winTo + 1
         o == IF pcAfter = "window"
              THEN OpenWindow(curAfter, msEnd, windowSize, msConcurrency)
              ELSE NoWindow(msConcurrency)
     IN /\ prevHeader' = r.prev
        /\ totalMinerSecondary' = r.total
        /\ msAdded' = r.added
        /\ cur' = curAfter
        /\ mspc' = pcAfter
        /\ winOut' = o.out
        /\ winNext' = o.next
        /\ winWk' = o.wk
        /\ fetched' = fetched \o o.asked
        /\ msWindows' = msWindows \o o.windows
  /\ UNCHANGED << msForm, msStart, msEnd, windowSize, epochLen, fault, reported,
                  msConcurrency >>

\* a getHeaderByNumber of the window throws: Promise.all rejects, main fails
WindowFetchFails ==
  /\ UNCHANGED msOthers
  /\ mspc = "window"
  /\ \E w \in DOMAIN winWk : winWk[w].st = "await"
  /\ mspc' = "failed"
  /\ UNCHANGED << msForm, msStart, msEnd, windowSize, epochLen, fault, prevHeader, cur,
                  totalMinerSecondary, msAdded, fetched, reported, msWindows,
                  msConcurrency, winOut, winNext, winWk >>

\* the while loop ends: the total is printed
ReportSecondary ==
  /\ UNCHANGED msOthers
  /\ mspc = "window"
  /\ cur > msEnd
  /\ mspc' = "done"
  /\ reported' = [kind |-> "total", value |-> totalMinerSecondary]
  /\ UNCHANGED << msForm, msStart, msEnd, windowSize, epochLen, fault, prevHeader, cur,
                  totalMinerSecondary, msAdded, fetched, msWindows, msConcurrency,
                  winOut, winNext, winWk >>

\* fullEpochs * SECONDARY_EPOCH_REWARD + part, for an epoch of length > 0
EstimateTotal(ep) ==
  LET fullEpochs == Max(0, ep.number - 1)
      part == (SECONDARY_EPOCH_REWARD * ep.index) \div ep.length
  IN fullEpochs * SECONDARY_EPOCH_REWARD + part

\* secondary_issuance_total.js, main: the estimate from the tip header
Estimate ==
  /\ UNCHANGED msOthers
  /\ mspc = "estimate"
  /\ LET ep == parseEpochPacked(SecondaryHeader(msEnd).epoch)
     IN IF ep.length = 0
        THEN /\ mspc' = Exit(mspc)
             /\ reported' = reported
        ELSE /\ mspc' = "done"
             /\ reported' = [kind |-> "total", value |-> EstimateTotal(ep)]
  /\ UNCHANGED << msForm, msStart, msEnd, windowSize, epochLen, fault, prevHeader, cur,
                  totalMinerSecondary, msAdded, fetched, msWindows, msConcurrency,
                  winOut, winNext, winWk >>

NoReport == [kind |-> "none", value |-> 0]

\* the values of CONCURRENCY the scan is run with
Concurrencies == {1, 2}

\* const windowSize = Math.max(1, CONCURRENCY * WINDOW_MULT)
WindowSizeOf(conc, mult) == Max(1, conc * mult)

\* main up to the first await of the window loop: START, END, prevHeader =
\* header START - 1, the first window opened
MsStart(form, from, to, conc, mult, len, flt) ==
  /\ msForm = form
  /\ msStart = from
  /\ msEnd = to
  /\ msConcurrency = conc
  /\ windowSize = WindowSizeOf(conc, mult)
  /\ epochLen = len
  /\ fault = flt
  /\ prevHeader = SecondaryHeader(from - 1)
  /\ cur = from
  /\ totalMinerSecondary = 0
  /\ msAdded = << >>
  /\ reported = NoReport
  /\ mspc = IF form = "scan" THEN "window" ELSE "estimate"
  /\ LET o == IF form = "scan" THEN OpenWindow(from, to, WindowSizeOf(conc, mult), conc)
              ELSE NoWindow(conc)
     IN /\ winOut = o.out
        /\ winNext = o.next
        /\ winWk = o.wk
        /\ fetched = o.asked
        /\ msWindows = o.windows

MsInit ==
  \E len \in 1 .. MaxEpochLen, flt \in Faults :
    \/ \E from \in 1 .. MaxTip, to \in 1 .. MaxTip, conc \in Concurrencies,
          mult \in 0 .. MaxWindow :
         /\ from <= to + 1
         /\ MsStart("scan", from, to, conc, mult, len, flt)
    \/ \E to \in 0 .. MaxTip : MsStart("estimate", 1, to, 1, 1, len, flt)

MsNext ==
  \/ \E w \in Concurrencies : HeaderArrives(w)
  \/ Window
  \/ WindowFetchFails
  \/ ReportSecondary
  \/ Estimate

(***************************************************************************)
(* Part VII: the field decoders and the cell sizers, applied to one input  *)
(***************************************************************************)
\* ---- the inputs
\* a dao field of `len` bytes: the four u64 written little-endian at offsets
\* 0, 8, 16, 24, cut or padded to len
DaoBytes(written, len) ==
  LET whole == u64le(written[1]) \o u64le(written[2]) \o u64le(written[3]) \o u64le(written[4])
  IN [j \in 1 .. len |-> IF j <= 32 THEN whole[j] ELSE 0]

NoCell == [capacity |-> 0, lockArgs |-> 0, type |-> "none", typeArgs |-> 0]

DaoInput(written, len) ==
  [kind |-> "dao", bytes |-> DaoBytes(written, len), raw |-> written,
   cell |-> NoCell, data |-> NoData]

EpochInput(number, index, length) ==
  [kind |-> "epoch",
   bytes |-> EpochField([number |-> number, index |-> index, length |-> length]),
   raw |-> << number, index, length >>, cell |-> NoCell, data |-> NoData]

CellInput(lockArgs, type, typeArgs, dataLen) ==
  [kind |-> "cell", bytes |-> << >>, raw |-> << >>,
   cell |-> [capacity |-> 0, lockArgs |-> lockArgs, type |-> type, typeArgs |-> typeArgs],
   data |-> Data([j \in 1 .. dataLen |-> 0])]

\* lengths of the dao fields handed to the decoders
DaoLens == {0, 15, 16, 23, 24, 31, 32, 33}

\* values written into the fields
FieldValues == {1, 258}

CodecInputs ==
  { DaoInput(<< c, a, s, u >>, len) :
      c \in FieldValues, a \in FieldValues, s \in FieldValues, u \in FieldValues, len \in DaoLens }
  \cup { EpochInput(number, index, length) :
           number \in {0, 5, 16777215}, index \in {0, 3, 65535}, length \in {1, 1800, 16777215} }
  \cup { CellInput(la, ty, ta, dl) :
           la \in 0 .. MaxArgs, ty \in {"none", "dao"}, ta \in 0 .. MaxArgs, dl \in 0 .. MaxData }

\* ---- the results
Threw(fn) == [fn |-> fn, threw |-> TRUE, value |-> << >>]

Returned(fn, value) == [fn |-> fn, threw |-> FALSE, value |-> value]

NoResult == [fn |-> "none", threw |-> FALSE, value |-> << >>]

Applied(result) ==
  /\ UNCHANGED cdOthers
  /\ codecpc = "ready"
  /\ codecpc' = "applied"
  /\ codecOut' = result
  /\ UNCHANGED codecIn

\* parseDao of the miner-secondary scan
ApplyParseDao ==
  /\ codecIn.kind = "dao"
  /\ Applied(IF parseDaoThrows(codecIn.bytes) THEN Threw("parseDao")
             ELSE Returned("parseDao", << parseDao(codecIn.bytes).C, parseDao(codecIn.bytes).U >>))

\* parseDaoAR of the reward scans
ApplyParseDaoAR ==
  /\ codecIn.kind = "dao"
  /\ Applied(IF parseDaoARThrows(codecIn.bytes) THEN Threw("parseDaoAR")
             ELSE Returned("parseDaoAR", << parseDaoAR(codecIn.bytes) >>))

\* parseDaoS of the unclaimed-reward scans
ApplyParseDaoS ==
  /\ codecIn.kind = "dao"
  /\ Applied(IF parseDaoSThrows(codecIn.bytes) THEN Threw("parseDaoS")
             ELSE Returned("parseDaoS", << parseDaoS(codecIn.bytes) >>))

ApplyParseEpochPacked ==
  /\ codecIn.kind = "epoch"
  /\ Applied(LET ep == parseEpochPacked(codecIn.bytes)
             IN Returned("parseEpochPacked", << ep.number, ep.index, ep.length >>))

\* occupiedBytes of ckb_capacity.js
ApplyOccupiedBytes ==
  /\ codecIn.kind = "cell"
  /\ Applied(Returned("occupiedBytes", << occupiedBytes(codecIn.cell, codecIn.data) >>))

\* cellSizeBytes of the script with its own sizing
ApplyCellSizeBytes ==
  /\ codecIn.kind = "cell"
  /\ Applied(Returned("cellSizeBytes", << cellSizeBytes(codecIn.cell, codecIn.data) >>))

CdStart(input) ==
  /\ codecIn = input
  /\ codecOut = NoResult
  /\ codecpc = "ready"

CdInit == \E input \in CodecInputs : CdStart(input)

CdNext ==
  \/ ApplyParseDao
  \/ ApplyParseDaoAR
  \/ ApplyParseDaoS
  \/ ApplyParseEpochPacked
  \/ ApplyOccupiedBytes
  \/ ApplyCellSizeBytes

(***************************************************************************)
(* Specifications                                                          *)
(***************************************************************************)
\* the parts that a specification does not run stay in their initial state
CkIdle ==
  /\ CkInit
  /\ remote = [h \in Heights |-> "ok"]

PgIdle == PgStart("get_cells", FALSE)

PlIdle == PlStart("strict", << >>, 1) /\ shape = "normal"

RpIdle == RpStart("lastErr", 1)

UnIdle == UnStart("imported", << >>, TipHeight)

MsIdle == MsStart("scan", 1, 1, 1, 1, 1, NoFault)

CdIdle == CdStart(CellInput(0, "none", 0, 0))

InitCheckpoint ==
  /\ CkInit
  /\ PgIdle
  /\ PlIdle
  /\ RpIdle
  /\ UnIdle
  /\ MsIdle
  /\ CdIdle

SpecCheckpoint == InitCheckpoint /\ [][CkNext]_vars

SpecCheckpointAnyBatch == InitCheckpoint /\ [][CkNextAnyBatch]_vars

InitCheckpointFound ==
  /\ CkInitFound
  /\ PgIdle
  /\ PlIdle
  /\ RpIdle
  /\ UnIdle
  /\ MsIdle
  /\ CdIdle

SpecCheckpointFound == InitCheckpointFound /\ [][CkNext]_vars

InitScan ==
  /\ PgInit
  /\ CkIdle
  /\ PlIdle
  /\ RpIdle
  /\ UnIdle
  /\ MsIdle
  /\ CdIdle

SpecScan == InitScan /\ [][PgNext]_vars

\* every rpc call returns or throws (it carries a timeout), the body of the
\* for-await loop and the page's mapLimit come to their end
SpecScanFair ==
  /\ InitScan
  /\ [][PgNext]_vars
  /\ WF_vars(Query)
  /\ WF_vars(NextCell)
  /\ WF_vars(PageProcessed)

InitPool ==
  /\ PlInit
  /\ CkIdle
  /\ PgIdle
  /\ RpIdle
  /\ UnIdle
  /\ MsIdle
  /\ CdIdle

SpecPool == InitPool /\ [][PlNext]_vars

InitRpc ==
  /\ RpInit
  /\ CkIdle
  /\ PgIdle
  /\ PlIdle
  /\ UnIdle
  /\ MsIdle
  /\ CdIdle

SpecRpc == InitRpc /\ [][RpNext]_vars

InitUnclaimed ==
  /\ UnInit
  /\ CkIdle
  /\ PgIdle
  /\ PlIdle
  /\ RpIdle
  /\ MsIdle
  /\ CdIdle

SpecUnclaimed == InitUnclaimed /\ [][UnNext]_vars

InitSecondary ==
  /\ MsInit
  /\ CkIdle
  /\ PgIdle
  /\ PlIdle
  /\ RpIdle
  /\ UnIdle
  /\ CdIdle

SpecSecondary == InitSecondary /\ [][MsNext]_vars

InitCodec ==
  /\ CdInit
  /\ CkIdle
  /\ PgIdle
  /\ PlIdle
  /\ RpIdle
  /\ UnIdle
  /\ MsIdle

SpecCodec == InitCodec /\ [][CdNext]_vars

(***************************************************************************)
(* Claims about the checkpointed miner-reward scan.                        *)
(***************************************************************************)
\* the response array with its items in the order of the calls
RECURSIVE InCallOrder(_, _)
InCallOrder(b, actual) ==
  IF actual <= 0 THEN << >>
  ELSE InCallOrder(b, actual - 1) \o
       (IF remote[b + actual - 1] = "missing" THEN << >>
        ELSE << ResponseItem(actual - 1, b + actual - 1) >>)

\* the batch loop of one uninterrupted run, from base b with sum s
RECURSIVE RunLoop(_, _, _, _)
RunLoop(b, s, size, end) ==
  IF b > end THEN s
  ELSE RunLoop(b + size,
               s + BatchAmount(ById(InCallOrder(b, Actual(b, size, end))),
                               Actual(b, size, end)),
               size, end)

\* the sum a single uninterrupted run from height 0 ends with
UninterruptedSum(size, end) == RunLoop(0, 0, size, end)

\* the miner reward of height h: the capacity of the first output of the first
\* transaction of the chain's block h (nothing when the chain has no such output)
MinerReward(h) == IF remote[h] \in {"null", "nooutput"} THEN 0 ELSE Capacity(h)

RECURSIVE RewardBelow(_)
RewardBelow(n) == IF n <= 0 THEN 0 ELSE RewardBelow(n - 1) + MinerReward(n - 1)

CheckpointOnDisk == loadCheckpoint(files[CHECKPOINT_FILE])

\* C2: a run that resumed from a persisted checkpoint finishes with the sum
\* of a single uninterrupted run from height 0 to the same end height, the
\* remote answering the same in both.
C2_ResumeEqualsUninterrupted ==
  pc = "done" => sum = UninterruptedSum(BATCH_SIZE, endHeight)

\* C2 witness: a run that loaded the checkpoint of a dead run in the middle
\* of the range, scanned the rest and finished
C2_Witness ==
  /\ pc = "done"
  /\ resumed
  /\ 0 < startHeight
  /\ startHeight < endHeight
  /\ sum > 0

\* C3: the persisted sum_shannons is the sum of the miner reward of every
\* height in [0, next_height), each counted once, also when an item of a
\* batch response is missing or carries an error.
C3_PersistedSumExact ==
  CheckpointOnDisk.kind = "ckpt" =>
    CheckpointOnDisk.sum = RewardBelow(CheckpointOnDisk.nextHeight)

\* C4: the checkpoint file is absent or holds a whole checkpoint, whose
\* heights below next_height all belong to completed batches; whenever the
\* file changes, it becomes the content of the saveCheckpoint call in progress.
C4_FileWhole ==
  /\ files[CHECKPOINT_FILE].kind \in {"absent", "json"}
  /\ CheckpointOnDisk.kind = "ckpt" =>
       \A h \in 0 .. (CheckpointOnDisk.nextHeight - 1) : h \in completed

C4_FileFromSaveCall ==
  files'[CHECKPOINT_FILE] # files[CHECKPOINT_FILE] =>
    /\ saveArg.kind = "arg"
    /\ files'[CHECKPOINT_FILE] = CheckpointJson(saveArg)

C4_CrashSafeCheckpoint == [] C4_FileWhole /\ [][C4_FileFromSaveCall]_vars

\* C4 witness: the process died between the write of the .tmp file and the
\* rename, and the checkpoint file still holds the earlier checkpoint
C4_Witness ==
  /\ pc = "dead"
  /\ files[TmpPath(CHECKPOINT_FILE)].kind = "json"
  /\ files[CHECKPOINT_FILE].kind = "json"
  /\ files[TmpPath(CHECKPOINT_FILE)] # files[CHECKPOINT_FILE]

\* C14: a run that loads a checkpoint with next_height > end height is done
\* at once: it processes no batch, writes no file, and the sum it reports is
\* the checkpoint's sum.
C14_StartBeyondEnd ==
  LET ckpt == loadCheckpoint(files[CHECKPOINT_FILE])
  IN (pc \in {"boot", "dead", "done"} /\ ckpt.kind = "ckpt"
        /\ ckpt.nextHeight > endHeight') =>
       /\ pc' = "done"
       /\ sum' = ckpt.sum
       /\ files' = files
       /\ completed' = completed
       /\ batchCount' = 0

C14_NothingDoneBeyondEnd ==
  (pc = "done" /\ startHeight > endHeight) =>
    /\ batchCount = 0
    /\ sum = ResumeSum(loadCheckpoint(files[CHECKPOINT_FILE]))

C14_AlreadyComplete == [] C14_NothingDoneBeyondEnd /\ [][C14_StartBeyondEnd]_vars

\* C14 witness: a run that found the checkpoint of a completed scan
C14_Witness ==
  /\ pc = "done"
  /\ startHeight = endHeight + 1
  /\ endHeight = MaxEnd
  /\ batchCount = 0
  /\ files[CHECKPOINT_FILE].kind = "json"
  /\ sum > 0

\* C15: when a run has gone through its batch loop to the end, the checkpoint
\* on disk has next_height = end + 1, end_height = end and sum_shannons equal
\* to the total the run reports, for every CHECKPOINT_EVERY_BATCH.
C15_FinalCheckpoint ==
  (pc = "done" /\ startHeight <= endHeight) =>
    /\ files[CHECKPOINT_FILE].kind = "json"
    /\ files[CHECKPOINT_FILE].next_height.value = toString(endHeight + 1)
    /\ files[CHECKPOINT_FILE].end_height.value = toString(endHeight)
    /\ files[CHECKPOINT_FILE].sum_shannons.value = toString(sum)

\* C15 witness: a completed run whose last batch was not followed by a
\* checkpoint of the loop
C15_Witness ==
  /\ pc = "done"
  /\ startHeight <= endHeight
  /\ CHECKPOINT_EVERY_BATCH = 2
  /\ batchCount % 2 = 1
  /\ sum > 0
  /\ files[CHECKPOINT_FILE].kind = "json"

\* what the response items give when each is attributed to the call with its id
RECURSIVE AttributedAmount(_, _)
AttributedAmount(items, actual) ==
  IF actual <= 0 THEN 0
  ELSE AttributedAmount(items, actual - 1) +
       (LET mine == {x \in items : x.id = actual - 1 /\ ~x.error}
        IN IF mine = {} THEN 0
           ELSE LET cap == extractMinerReward((CHOOSE x \in mine : TRUE).result)
                IN IF cap.kind = "null" THEN 0 ELSE cap.value)

\* C16: what a batch adds to sum does not depend on the order of the entries
\* of the response array: whatever the order the array came in, a batch step
\* adds to sum what the response items give when each is attributed to the
\* call with its id.
C16_StepOrderIndependent ==
  (pc = "batch" /\ pc' # "dead") =>
    sum' = sum + AttributedAmount(Results(base, Actual(base, BATCH_SIZE, endHeight)),
                                  Actual(base, BATCH_SIZE, endHeight))

C16_OrderIndependent == [][C16_StepOrderIndependent]_vars

\* C16 witness: a batch of two calls has been answered and added
C16_Witness ==
  /\ BATCH_SIZE = 2
  /\ batchCount = 1
  /\ startHeight = 0
  /\ base = 0
  /\ pc = "ckpt_open"
  /\ sum = Capacity(0) + Capacity(1)

(***************************************************************************)
(* Claims about the paginated scans.                                       *)
(***************************************************************************)
IsPrefix(a, b) == Len(a) <= Len(b) /\ SubSeq(b, 1, Len(a)) = a

QueryIssued == Len(queries') > Len(queries)

\* the conditions the scan ends on: no object list or an empty one; a
\* last_cursor that is missing, '0x' or '0x0'
EmptyPage(page) == page.objects.kind = "absent" \/ page.objects.items = <<>>

EndCursor(page) ==
  \/ page.last_cursor.kind = "null"
  \/ page.last_cursor.text \in {"0x", "0x0"}

\* C8: a paginated scan issues no query after a page with an empty or missing
\* object list, or with a last_cursor that is missing, '0x' or '0x0'; when it
\* has ended, the objects of every page received, the last one too, have
\* been processed.
C8_NoQueryAfterEnd ==
  QueryIssued => (queries = <<>> \/ ~ (EmptyPage(res) \/ EndCursor(res)))

C8_EndedScanProcessedAll ==
  /\ gpc = "done" => consumed = received
  /\ (queries # <<>> /\ (EmptyPage(res) \/ EndCursor(res)) /\ consumed = received)
       => gpc \in {"done", "failed"}

C8_ScanStops == [] C8_EndedScanProcessedAll /\ [][C8_NoQueryAfterEnd]_vars

\* C8 witness: a scan ended by the last_cursor '0x0' of its second page,
\* whose objects were processed
C8_Witness ==
  /\ gpc = "done"
  /\ Len(queries) = 2
  /\ ~ EmptyPage(res)
  /\ res.last_cursor.kind = "string"
  /\ res.last_cursor.text = "0x0"
  /\ consumed = received

\* C9: the first query of a scan carries no cursor, every later query carries
\* the last_cursor of the page just before it, and filter, sort order and
\* page limit are those of the first query.
C9_CursorChain ==
  \A n \in 1 .. Len(queries) :
    /\ queries[n][1] = queries[1][1]
    /\ IF n = 1 THEN Len(queries[n]) = 1
       ELSE /\ Len(queries[n]) = 2
            /\ queries[n][2] = lastCursors[n - 1]

\* C9 witness: a scan that has issued three queries
C9_Witness ==
  /\ Len(queries) = 3
  /\ lastCursors[1] # lastCursors[2]

\* C10: getDaoLiveCells hands out the objects of the pages it receives once
\* each, in the order received, and asks for a further page only when the
\* consumer is done with every object received so far.
C10_YieldedInOrder ==
  scanKind = "get_cells" =>
    /\ IsPrefix(yielded, received)
    /\ IsPrefix(consumed, yielded)
    /\ gpc \in {"query", "done"} => (yielded = received /\ consumed = received)
    /\ gpc = "yielded" => Len(yielded) = Len(consumed) + 1

C10_PageAfterConsumed ==
  (scanKind = "get_cells" /\ QueryIssued) => consumed = received

C10_GeneratorOrder == [] C10_YieldedInOrder /\ [][C10_PageAfterConsumed]_vars

\* C10 witness: getDaoLiveCells ended after two full pages and an empty third
C10_Witness ==
  /\ scanKind = "get_cells"
  /\ gpc = "done"
  /\ Len(queries) = 3
  /\ Len(yielded) = 2 * MaxPageLen
  /\ yielded = received
  /\ consumed = received

\* C11: a paginated scan over a finite result set comes to its end: the loop
\* stops issuing paged queries and the scan is done (or has failed with rpc).
C11_ScanTerminates == <>[] (gpc \in {"done", "failed"})

\* C11 witness: a settlement scan that went through the whole result set and
\* ended on the empty page after it
C11_Witness ==
  /\ scanKind = "get_transactions"
  /\ gpc = "done"
  /\ Len(queries) = MaxPages
  /\ EmptyPage(res)
  /\ Len(consumed) = (MaxPages - 1) * MaxPageLen

(***************************************************************************)
(* Claims about the worker pools and the caches.                           *)
(***************************************************************************)
\* the callback of item h run alone, every lookup answered at once
RECURSIVE Sequential(_, _, _)
Sequential(v, h, c) ==
  LET o == Continue(v, h, c, Resolved([c EXCEPT !.wait = TRUE], cacheValues))
  IN IF o.kind = "lookup" THEN Sequential(v, h, o.call) ELSE o

ItemResult(v, h) == Sequential(v, h, FirstLookup(v, h))

\* what the invocations for the indices in S add to totalReward
RECURSIVE RewardOver(_)
RewardOver(S) ==
  IF S = {} THEN 0
  ELSE LET idx == CHOOSE x \in S : TRUE
           o == ItemResult(variant, arr[idx])
       IN (IF o.add THEN o.amount ELSE 0) + RewardOver(S \ {idx})

\* what the invocations for the indices in S add to withdraw2Txs
RECURSIVE CountOver(_)
CountOver(S) ==
  IF S = {} THEN 0
  ELSE LET idx == CHOOSE x \in S : TRUE
       IN ItemResult(variant, arr[idx]).count + CountOver(S \ {idx})

Indices == 1 .. Len(arr)

InFlight == {idx \in Indices : call[idx].pc \notin {"none", "done"}}

Completed == {idx \in Indices : call[idx].pc = "done"}

\* C1: at most one get_transaction request per tx hash and at most one
\* get_header_by_number request per height is in flight at any time: a second
\* caller of getTx / getARByBlockNumberHex for a key being fetched waits for
\* the first caller's result.
C1_OneFetchPerKey ==
  /\ \A h \in TxHashes : inflightTx[h] <= 1
  /\ \A b \in Blocks : inflightAR[b] <= 1

\* C5: the invocations of the per-item fetch in flight (started, not yet
\* completed) never outnumber the workers, whatever the order of completion.
C5_AtMostLimitInFlight == Cardinality(InFlight) <= limit

\* as many invocations in flight as there are workers, and items left to take
C5_Witness ==
  /\ limit = 2
  /\ Cardinality(InFlight) = 2
  /\ poolI < Len(arr)

\* C6: when mapLimit resolves, fn has been invoked exactly once for every index
\* and every invocation has completed, for any configured limit.
C6_EveryIndexOnce ==
  plpc = "resolved" =>
    \A idx \in Indices : invoked[idx] = 1 /\ call[idx].pc = "done"

\* C7: totalReward and withdraw2Txs are at every moment the sum and the count
\* over the invocations that have completed, so that once the pool of a scan
\* with workers has resolved they are the sum and the count over all the items,
\* in whatever order the workers' awaits completed.
C7_TotalsOrderIndependent ==
  /\ variant # "window" /\ plpc # "failed" =>
       /\ totalReward = RewardOver(Completed)
       /\ withdraw2Txs = CountOver(Completed)
  /\ variant # "window" /\ plpc = "resolved" /\ Workers # {} =>
       /\ totalReward = RewardOver(Indices)
       /\ withdraw2Txs = CountOver(Indices)

\* two workers have settled two qualifying transactions, the second item
\* having completed while the first was still in flight
C7_Witness ==
  /\ variant = "perInput"
  /\ limit = 2
  /\ arr = << "w2", "w1" >>
  /\ call[1].pc = "arJ"
  /\ call[2].pc = "done"
  /\ totalReward = 181
  /\ withdraw2Txs = 1

\* the previous output a transaction's only input consumes, with its data
ConsumedBy(tx) ==
  LET prev == tx.inputs[1]
      ptx == RemoteTx(prev.tx_hash)
  IN IF ptx.known /\ prev.index + 1 \in DOMAIN ptx.outputs
     THEN [found |-> TRUE, output |-> ptx.outputs[prev.index + 1],
           data |-> IF prev.index + 1 \in DOMAIN ptx.outputs_data
                    THEN ptx.outputs_data[prev.index + 1] ELSE NoData]
     ELSE [found |-> FALSE, output |-> Cell(0, "none"), data |-> NoData]

\* the transaction h qualifies as a settlement of the strict scan
StrictQualifies(h) ==
  LET tx == RemoteTx(h)
  IN /\ tx.known
     /\ Len(tx.inputs) = 1
     /\ Len(tx.outputs) = 1
     /\ \A n \in DOMAIN tx.outputs : tx.outputs[n].type # "dao"
     /\ ConsumedBy(tx).found
     /\ ConsumedBy(tx).output.type = "dao"
     /\ ConsumedBy(tx).data # NoData
     /\ ConsumedBy(tx).data # DepositData

\* output capacity minus consumed capacity when the transaction qualifies and
\* the difference is > 0; nothing otherwise
StrictAmount(h) ==
  IF ~ StrictQualifies(h) THEN 0
  ELSE LET delta == RemoteTx(h).outputs[1].capacity - ConsumedBy(RemoteTx(h)).output.capacity
       IN IF delta > 0 THEN delta ELSE 0

RECURSIVE StrictAmountOver(_)
StrictAmountOver(S) ==
  IF S = {} THEN 0
  ELSE LET idx == CHOOSE x \in S : TRUE
       IN StrictAmount(arr[idx]) + StrictAmountOver(S \ {idx})

\* C23: in the strict settlement scan a transaction adds to totalReward only
\* if it has exactly one input and one output, none of its outputs is
\* DAO-typed, the output it consumes is DAO-typed and that output's data is
\* present and is not the deposit marker; it adds its output capacity minus
\* the consumed capacity, and only when that is > 0
C23_StrictSettlement ==
  (variant = "strict" /\ plpc # "failed") =>
    /\ totalReward = StrictAmountOver(Completed)
    /\ withdraw2Txs = Cardinality({idx \in Completed : StrictQualifies(arr[idx])})

\* C23 witness: the pool has settled the transaction w1, which qualifies and
\* gains 200, next to a transaction with two inputs
C23_Witness ==
  /\ variant = "strict"
  /\ shape = "normal"
  /\ plpc = "resolved"
  /\ arr = << "w2", "w1" >>
  /\ totalReward = 200
  /\ withdraw2Txs = 1

(***************************************************************************)
(* Claims about rpc.                                                       *)
(***************************************************************************)
Failed(o) == o.kind \in {"timeout", "transport", "error"}

\* C12: rpc makes at most `retries` attempts; it returns the result of the
\* first attempt that succeeds and attempts nothing after it; a timeout, a
\* transport error and an error response each use up one attempt and are
\* retried alike; the delay before attempt i+1 grows with i; when every
\* attempt has failed the call throws the error of the last attempt.
C12_RetryLoop ==
  /\ Len(attempts) <= retries
  /\ \A n \in 1 .. Len(attempts) : attempts[n].attempt = n
  /\ \A n \in 1 .. (Len(attempts) - 1) : Failed(attempts[n])
  /\ rpcpc = "returned" <=> (attempts # << >> /\ attempts[Len(attempts)].kind = "ok")
  /\ rpcpc = "returned" => rpcResult = attempts[Len(attempts)]
  /\ rpcpc = "threw" =>
       /\ Len(attempts) = retries
       /\ Failed(attempts[retries])
       /\ rpcThrown = attempts[retries]
  /\ rpcpc = "fetch" => Len(delays) = Len(attempts)
  /\ Len(delays) >= Len(attempts) - 1
  /\ \A m, n \in 1 .. Len(delays) : m < n => delays[m] < delays[n]

\* C12 witness: three attempts failed in the three ways, and the call threw
C12_Witness ==
  /\ rpcpc = "threw"
  /\ retries = 3
  /\ attempts[1].kind = "timeout"
  /\ attempts[2].kind = "transport"
  /\ attempts[3].kind = "error"
  /\ Len(delays) >= 2

\* C13: in the miner-reward scan a transient failure (timeout, connection
\* error) of the tip query or of a batched block query is retried after a
\* delay, and the call fails only after such retries.
C13_TransientRetried ==
  (rpcForm = "single" /\ rpcpc = "threw") =>
    (Len(attempts) >= 2 /\ Len(delays) >= 1)

(***************************************************************************)
(* Claims about the unclaimed-reward scans.                                *)
(***************************************************************************)
RECURSIVE LittleEndian(_)
\* the number a byte string encodes, least significant byte first
LittleEndian(bytes) ==
  IF bytes = << >> THEN 0 ELSE Head(bytes) + 256 * LittleEndian(Tail(bytes))

\* floor(free * ARto / ARfrom) - free when that is > 0, and 0 (nothing) otherwise
FloorReward(free, ARto, ARfrom) ==
  LET r == ((free * ARto) \div ARfrom) - free IN IF r > 0 THEN r ELSE 0

RECURSIVE SumOver(_, _)
SumOver(es, field) ==
  IF es = << >> THEN 0 ELSE es[1][field] + SumOver(Tail(es), field)

DepositFormula(e) ==
  /\ e.deposit = FloorReward(FreeOf(uForm, e.cell), tipAR, HeaderAR(e.cell.block_number))
  /\ e.prepare = 0

\* C17: a live DAO cell whose data is the 8 zero bytes and whose free capacity
\* is > 0 adds floor(free * AR_tip / AR_deposit) - free to the unclaimed-deposit
\* total when that is > 0 and nothing otherwise, with AR_deposit the rate at the
\* cell's own block and free its capacity minus its occupied capacity
C17_DepositRewardOfFunded ==
  /\ unclaimedDeposit = SumOver(evals, "deposit")
  /\ \A n \in 1 .. Len(evals) :
       (evals[n].cell.output_data = DepositData /\ FreeOf(uForm, evals[n].cell) > 0)
         => DepositFormula(evals[n])

\* C17 witness: a funded deposit has added its reward to the deposit total
C17_Witness ==
  /\ upc = "done"
  /\ unclaimedDeposit > 0
  /\ \E n \in 1 .. Len(evals) :
       /\ evals[n].cell.output_data = DepositData
       /\ FreeOf(uForm, evals[n].cell) > 0
       /\ evals[n].deposit > 0

\* C17 as stated: every live DAO cell whose data is the 8 zero bytes adds
\* floor(free * AR_tip / AR_deposit) - free when > 0 and nothing otherwise
C17_DepositRewardOfEveryCell ==
  \A n \in 1 .. Len(evals) :
    evals[n].cell.output_data = DepositData => DepositFormula(evals[n])

C19_NoFreeAddsNothing ==
  \A n \in 1 .. Len(evals) :
    FreeOf(uForm, evals[n].cell) <= 0
      => (evals[n].deposit = 0 /\ evals[n].prepare = 0)

\* C20: every reward the scan computes as (free * AR_to) / AR_from - free is
\* >= -free, and it is 0 when AR_to = AR_from
C20_RewardAtLeastMinusFree ==
  \A n \in 1 .. Len(evals) :
    LET ev == evals[n].eval
    IN ev.evaluated => /\ ev.reward >= - ev.free
                       /\ (ev.ARto = ev.ARfrom => ev.reward = 0)

\* prepare-withdraw data that is empty or not exactly 8 bytes
Malformed(data) == data # DepositData /\ (data.kind # "hex" \/ Len(data.bytes) # 8)

\* C24: a scanned cell whose prepare-withdraw data is malformed (empty, or not
\* exactly 8 bytes) is skipped and contributes zero reward; the scan goes on
\* with the next cell and does not fail
C24_MalformedSkipped ==
  \A n \in 1 .. Len(evals) :
    Malformed(evals[n].cell.output_data)
      => /\ evals[n].deposit = 0 /\ evals[n].prepare = 0
         /\ (upc = "failed" => n < Len(evals))
         /\ evals[n].kind # "throw"

(***************************************************************************)
(* Claims about the miner-secondary scan and the header field decoders.    *)
(***************************************************************************)
\* floor(R / L) + 1 for an index below R mod L, floor(R / L) otherwise
SecondaryShare(L, index) ==
  (SECONDARY_EPOCH_REWARD \div L) + (IF index < SECONDARY_EPOCH_REWARD % L THEN 1 ELSE 0)

RECURSIVE SumOfShares(_, _)
\* perBlockSecondary(L, 0) + ... + perBlockSecondary(L, n - 1)
SumOfShares(L, n) ==
  IF n <= 0 THEN 0 ELSE SumOfShares(L, n - 1) + perBlockSecondary(L, n - 1)

\* the blocks of epoch e of the chain
BlocksOfEpoch(e) == {h \in 0 .. MaxTip : h \div epochLen = e}

\* the entries of msAdded for the blocks in B
EntriesOf(B) == {n \in 1 .. Len(msAdded) : msAdded[n].i \in B}

RECURSIVE SumField(_, _, _)
SumField(added, N, field) ==
  IF N = {} THEN 0
  ELSE LET n == CHOOSE x \in N : TRUE
       IN added[n][field] + SumField(added, N \ {n}, field)

\* C21: for every epoch length L > 0 the values perBlockSecondary(L, index)
\* over the indices 0 .. L-1 add up to SECONDARY_EPOCH_REWARD, each being
\* floor(R / L) + 1 for index < R mod L and floor(R / L) otherwise; so do the
\* s_i of the blocks of every epoch the scan has gone through whole
C21_EpochSumExact ==
  /\ \A L \in 1 .. MaxEpochLen :
       /\ SumOfShares(L, L) = SECONDARY_EPOCH_REWARD
       /\ \A index \in 0 .. (L - 1) : perBlockSecondary(L, index) = SecondaryShare(L, index)
  /\ \A n \in 1 .. Len(msAdded) :
       msAdded[n].s = SecondaryShare(epochLen, ChainEpoch(msAdded[n].i).index)
  /\ \A e \in 0 .. MaxTip :
       (/\ Cardinality(BlocksOfEpoch(e)) = epochLen
        /\ BlocksOfEpoch(e) \subseteq {msAdded[n].i : n \in 1 .. Len(msAdded)})
         => SumField(msAdded, EntriesOf(BlocksOfEpoch(e)), "s") = SECONDARY_EPOCH_REWARD

\* C21 witness: the scan went through an epoch of three blocks, over which
\* the epoch reward does not divide evenly
C21_Witness ==
  /\ mspc = "done"
  /\ epochLen = 3
  /\ SECONDARY_EPOCH_REWARD % 3 # 0
  /\ BlocksOfEpoch(1) \subseteq {msAdded[n].i : n \in 1 .. Len(msAdded)}
  /\ Cardinality(BlocksOfEpoch(1)) = 3

\* C22: every block i of [START, END] the scan has processed added
\* floor(s_i * U / C), s_i from the epoch field of header i and (U, C) from the
\* header of block i-1, for i = START and for the first block of a window as
\* for any other; the blocks are processed in order, each once
C22_PayoutFromPreviousHeader ==
  /\ \A n \in 1 .. Len(msAdded) :
       LET i == msAdded[n].i
       IN /\ i = msStart + n - 1
          /\ i <= msEnd
          /\ msAdded[n].miner =
               (SecondaryShare(ChainEpoch(i).length, ChainEpoch(i).index) * ChainU(i - 1))
                 \div ChainC(i - 1)
  /\ totalMinerSecondary = SumField(msAdded, 1 .. Len(msAdded), "miner")
  /\ (mspc = "done" /\ msForm = "scan") =>
        /\ Len(msAdded) = msEnd - msStart + 1
        /\ reported.value = totalMinerSecondary

\* the heights fetched by the windows are fetched once each
FetchedOnce == \A m, n \in 1 .. Len(fetched) : m # n => fetched[m] # fetched[n]

\* the for-loop has gone over the window that holds height h
Processed(h) ==
  \E n \in 1 .. Len(msWindows) :
    /\ h \in msWindows[n].from .. msWindows[n].to
    /\ (n < Len(msWindows) \/ winOut = << >>)

\* the run has decoded the epoch field of the header with length 0
DecodedLengthZero ==
  /\ fault.kind = "length0"
  /\ \/ msForm = "scan" /\ Processed(fault.at)
     \/ msForm = "estimate" /\ mspc # "estimate" /\ fault.at = msEnd

\* C26: a header whose epoch field decodes to length 0 makes the run fail at
\* once, in the miner-secondary scan and in the estimate: the header is not
\* fetched again, no amount is added for its block and no total is reported
C26_ZeroLengthFatal ==
  /\ FetchedOnce
  /\ DecodedLengthZero =>
       /\ mspc = "failed"
       /\ reported = NoReport
       /\ \A n \in 1 .. Len(msAdded) : msAdded[n].i # fault.at

\* C26 witness: the scan failed on a header with length 0 in its second window,
\* after it had added the blocks before it
C26_Witness ==
  /\ msForm = "scan"
  /\ mspc = "failed"
  /\ fault.kind = "length0"
  /\ Len(msAdded) >= 2
  /\ Processed(fault.at)
  /\ \E n \in 1 .. Len(fetched) : fetched[n] = fault.at

\* C22 witness: a scan from block 2 on went through two windows of two blocks
C22_Witness ==
  /\ mspc = "done"
  /\ msForm = "scan"
  /\ windowSize = 2
  /\ msStart = 2
  /\ Len(msAdded) = 4

(***************************************************************************)
(* Claims about the decoders and the cell sizers.                          *)
(***************************************************************************)
DaoDecoders == {"parseDao", "parseDaoAR", "parseDaoS"}

\* C25: decoding a dao field that is not exactly 32 bytes long, shorter or
\* longer, fails in every decoder (parseDao, parseDaoAR, parseDaoS): no value
\* is returned from a field of another length
C25_WrongLengthFails ==
  (codecpc = "applied" /\ codecOut.fn \in DaoDecoders /\ Len(codecIn.bytes) # 32)
    => codecOut.threw

\* C27: parseEpochPacked applied to (length << 40) | (index << 24) | number,
\* with number < 2^24, index < 2^16 and 0 < length < 2^24, returns exactly
\* {number, index, length}
C27_EpochRoundTrip ==
  (codecpc = "applied" /\ codecOut.fn = "parseEpochPacked")
    => (~ codecOut.threw /\ codecOut.value = codecIn.raw)

\* C27 witness: the tuple with the largest number, index and length decoded
C27_Witness ==
  /\ codecpc = "applied"
  /\ codecOut.fn = "parseEpochPacked"
  /\ codecIn.raw = << 16777215, 65535, 16777215 >>
  /\ codecOut.value[2] = 65535

\* C28: from a 32-byte field built by writing four little-endian u64 (C, AR,
\* S, U) at the offsets 0, 8, 16, 24 the decoders return the written values:
\* parseDao C and U, parseDaoAR AR, parseDaoS S
C28_DaoRoundTrip ==
  (codecpc = "applied" /\ codecOut.fn \in DaoDecoders /\ Len(codecIn.bytes) = 32)
    => /\ ~ codecOut.threw
       /\ codecOut.fn = "parseDao" => codecOut.value = << codecIn.raw[1], codecIn.raw[4] >>
       /\ codecOut.fn = "parseDaoAR" => codecOut.value = << codecIn.raw[2] >>
       /\ codecOut.fn = "parseDaoS" => codecOut.value = << codecIn.raw[3] >>

\* C28 witness: parseDao decoded a field whose U differs from its C, AR and S
C28_Witness ==
  /\ codecpc = "applied"
  /\ codecOut.fn = "parseDao"
  /\ codecIn.raw = << 1, 1, 1, 258 >>
  /\ Len(codecIn.bytes) = 32
  /\ codecOut.value = << 1, 258 >>

\* the sizer the result in codecOut comes from, applied to another cell
SameSizer(cell, data) ==
  IF codecOut.fn = "occupiedBytes" THEN occupiedBytes(cell, data)
  ELSE cellSizeBytes(cell, data)

OneMoreByte(data) == Data(Append(data.bytes, 0))

Sized == codecpc = "applied" /\ codecOut.fn \in {"occupiedBytes", "cellSizeBytes"}

\* C29: in every implementation the scans use, occupiedBytes does not decrease
\* when the lock args, the type args or the data get longer, and it is 41 for
\* a cell with empty lock args, no type script and empty data
C29_OccupiedBytes ==
  Sized =>
    LET c == codecIn.cell
        d == codecIn.data
        n == codecOut.value[1]
    IN /\ n <= SameSizer([c EXCEPT !.lockArgs = c.lockArgs + 1], d)
       /\ n <= SameSizer([c EXCEPT !.typeArgs = c.typeArgs + 1], d)
       /\ n <= SameSizer(c, OneMoreByte(d))
       /\ (c.lockArgs = 0 /\ c.type = "none" /\ Len(d.bytes) = 0) => n = 41

\* what the type script adds to the size in codecOut
TypeContribution ==
  codecOut.value[1] - SameSizer([codecIn.cell EXCEPT !.type = "none"], codecIn.data)

\* C30: in occupiedBytes (ckb_capacity.js) an absent type script contributes 0
\* bytes and a present type script contributes 32 + 1 + len(type args) bytes,
\* with no byte marking its presence
C30_TypeContributionUnmarked ==
  (codecpc = "applied" /\ codecOut.fn = "occupiedBytes") =>
    TypeContribution = IF codecIn.cell.type = "none" THEN 0
                       ELSE 32 + 1 + codecIn.cell.typeArgs

\* C30 witness: occupiedBytes sized a cell with a type script with args
C30_Witness ==
  /\ codecpc = "applied"
  /\ codecOut.fn = "occupiedBytes"
  /\ codecIn.cell.type = "dao"
  /\ codecIn.cell.typeArgs = 2
  /\ codecIn.cell.lockArgs = 1

\* C30 as stated: an absent type script contributes 0 bytes and a present one
\* 1 + (32 + 1 + len(type args)) bytes
C30_TypeContributionMarked ==
  Sized =>
    TypeContribution = IF codecIn.cell.type = "none" THEN 0
                       ELSE 1 + (32 + 1 + codecIn.cell.typeArgs)

\* the deposit of the worked example: 102 CKB, lock and type script without
\* args, 8 zero data bytes, created at AR 200 and scanned with the tip at AR 210
\* (the rates 10^16 and 1.05 * 10^16 in the model's unit)
WorkedExample(e) ==
  /\ e.cell.output.capacity = 102 * SHANNONS_PER_CKB
  /\ e.cell.output.lockArgs = 0
  /\ e.cell.output.type = "dao"
  /\ e.cell.output.typeArgs = 0
  /\ e.cell.output_data = DepositData
  /\ HeaderAR(e.cell.block_number) = 200
  /\ tipAR = 210

\* C31: for the deposit of the worked example the occupied capacity is 82 CKB,
\* the free capacity is 20 CKB, and the unclaimed scan adds exactly 1 CKB to
\* the deposit total
C31_WorkedExample ==
  \A n \in 1 .. Len(evals) :
    WorkedExample(evals[n]) =>
      /\ evals[n].cell.output.capacity - FreeOf(uForm, evals[n].cell) = 82 * SHANNONS_PER_CKB
      /\ FreeOf(uForm, evals[n].cell) = 20 * SHANNONS_PER_CKB
      /\ evals[n].deposit = 1 * SHANNONS_PER_CKB
      /\ unclaimedDeposit = SumOver(evals, "deposit")

\* a step keeps every key the two Maps hold, with its value
Retained ==
  /\ txCache \subseteq txCache'
  /\ arCache \subseteq arCache'
  /\ \A h \in txCache : cacheValues'.tx[h] = cacheValues.tx[h]
  /\ \A b \in arCache : cacheValues'.ar[b] = cacheValues.ar[b]

\* a step sends no request for a key the Map holds when the lookup is made
NoRequestForCached ==
  /\ \A h \in TxHashes : inflightTx'[h] > inflightTx[h] => h \notin txCache'
  /\ \A b \in Blocks : inflightAR'[b] > inflightAR[b] => b \notin arCache'

\* the keys with a value are the keys of the Map, and a lookup that found its
\* key in the Map waits for no request
ServedFromCache ==
  /\ DOMAIN cacheValues.tx = txCache
  /\ DOMAIN cacheValues.ar = arCache
  /\ \A idx \in 1 .. Len(arr) :
       /\ (TxLookup(call[idx]) /\ call[idx].hash \in txCache /\ plpc = "running")
            => (~ call[idx].wait \/ inflightTx[call[idx].hash] > 0)
       /\ (TxLookup(call[idx]) /\ ~ call[idx].wait) => call[idx].hash \in txCache
       /\ (ARLookup(call[idx]) /\ ~ call[idx].wait) => call[idx].bn \in arCache

\* C32: once a cache holds a value for a key (block number -> AR, tx hash ->
\* transaction) the key is never removed and its value never changes for the
\* rest of the run, and every later lookup of that key is answered from the
\* cache without a request to the node
C32_CacheRetained ==
  [][Retained /\ NoRequestForCached /\ ServedFromCache']_vars

\* C32 witness: with the transaction p1 and the rate of block 1 cached, a
\* callback is being answered from txCache and no request for p1 is in flight
C32_Witness ==
  /\ plpc = "running"
  /\ "p1" \in txCache
  /\ 1 \in arCache
  /\ inflightTx["p1"] = 0
  /\ \E idx \in 1 .. Len(arr) :
       /\ call[idx].pc = "prev"
       /\ call[idx].hash = "p1"
       /\ ~ call[idx].wait

RECURSIVE SequentialTotal(_, _)
\* what a scan that takes the blocks from .. to one after the other adds up:
\* for each block its share of the epoch reward times U over C of the block
\* before it
SequentialTotal(from, to) ==
  IF from > to THEN 0
  ELSE SequentialTotal(from, to - 1)
       + (SecondaryShare(epochLen, ChainEpoch(to).index) * ChainU(to - 1)) \div ChainC(to - 1)

\* the windows opened so far are consecutive ranges of at most windowSize
\* heights that start at START and do not pass END
WindowsPartition ==
  /\ \A n \in 1 .. Len(msWindows) :
       /\ msWindows[n].from = IF n = 1 THEN msStart ELSE msWindows[n - 1].to + 1
       /\ msWindows[n].from <= msWindows[n].to
       /\ msWindows[n].to = Min(msEnd, msWindows[n].from + windowSize - 1)
  /\ mspc = "done" =>
       IF msStart > msEnd THEN msWindows = << >>
       ELSE msWindows[Len(msWindows)].to = msEnd

\* every height is asked for once, within a window that has been opened, and a
\* scan that ends has asked for every height of START .. END
EachHeightOnce ==
  /\ FetchedOnce
  /\ \A n \in 1 .. Len(fetched) :
       \E m \in 1 .. Len(msWindows) : fetched[n] \in msWindows[m].from .. msWindows[m].to
  /\ mspc = "done" => {fetched[n] : n \in 1 .. Len(fetched)} = msStart .. msEnd

\* a header that has arrived is held at slot height - winFrom of out
SlotsByHeight ==
  \A slot \in 1 .. Len(winOut) :
    winOut[slot] # NoHeader => winOut[slot].number = cur + (slot - 1)

\* the blocks are processed in ascending order of height, from START on
AscendingOrder == \A n \in 1 .. Len(msAdded) : msAdded[n].i = msStart + (n - 1)

\* the total a scan ends with is that of the sequential scan
SequentialResult ==
  mspc = "done" =>
    /\ totalMinerSecondary = SequentialTotal(msStart, msEnd)
    /\ reported = [kind |-> "total", value |-> SequentialTotal(msStart, msEnd)]

\* a step that processes blocks finds every slot of out filled
FilledBeforeProcessed ==
  (msAdded' # msAdded \/ cur' # cur) => \A slot \in 1 .. Len(winOut) : winOut[slot] # NoHeader

\* C33: in the miner-secondary scan the fetch windows partition [START, END]
\* into consecutive ranges; within a window every height is fetched once and
\* its header stored at slot height - winFrom, whatever the order in which the
\* fetches complete; every slot is filled before the window is processed, the
\* blocks are processed in ascending order, and the final total is that of a
\* sequential scan, for CONCURRENCY >= 1 and any WINDOW_MULT
C33_WindowedEqualsSequential ==
  /\ [](msForm = "scan" =>
          /\ WindowsPartition
          /\ EachHeightOnce
          /\ SlotsByHeight
          /\ AscendingOrder
          /\ SequentialResult)
  /\ [][msForm = "scan" => FilledBeforeProcessed]_vars

\* C33 witness: two workers, the second window of two blocks open after the
\* first has been processed, and its second header has arrived before its first
C33_Witness ==
  /\ msForm = "scan"
  /\ mspc = "window"
  /\ msConcurrency = 2
  /\ Len(msWindows) = 2
  /\ Len(msAdded) = 2
  /\ Len(winOut) = 2
  /\ winOut[1] = NoHeader
  /\ winOut[2] # NoHeader

\* main starts with a checkpoint on disk written for a smaller end height:
\* it goes into the batch loop at the checkpoint's next_height, with its sum
ResumesAtNextHeight ==
  (pc \in {"boot", "dead", "done"} /\ CheckpointOnDisk.kind = "ckpt"
     /\ CheckpointOnDisk.endHeight < endHeight') =>
       /\ startHeight' = CheckpointOnDisk.nextHeight
       /\ base' = CheckpointOnDisk.nextHeight
       /\ sum' = CheckpointOnDisk.sum
       /\ pc' = "batch"
       /\ files' = files

\* a batch asks for heights of [startHeight, endHeight] only
FetchesOnlyTheRest ==
  batchCount' = batchCount + 1 =>
    /\ startHeight <= base
    /\ Actual(base, BATCH_SIZE, endHeight) >= 1
    /\ base + Actual(base, BATCH_SIZE, endHeight) - 1 <= endHeight
    /\ completed' = completed \cup (base .. (base + Actual(base, BATCH_SIZE, endHeight) - 1))

\* past its batch loop a run holds the sum of one scan of [0, endHeight]
FinishesWithWholeSum ==
  pc \in {"final_open", "final_write", "final_rename", "done"} =>
    sum = UninterruptedSum(BATCH_SIZE, endHeight)

WritesCheckpoint == files'[CHECKPOINT_FILE] # files[CHECKPOINT_FILE]

\* a write of the checkpoint names a next_height above the run's start height
\* and at most end + 1, not below the one the file held, and the run's end
\* height
WriteInOrder ==
  WritesCheckpoint =>
    LET old == loadCheckpoint(files[CHECKPOINT_FILE])
        new == loadCheckpoint(files'[CHECKPOINT_FILE])
    IN /\ new.kind = "ckpt"
       /\ new.nextHeight > startHeight
       /\ new.nextHeight <= endHeight + 1
       /\ new.endHeight = endHeight
       /\ old.kind = "ckpt" => new.nextHeight >= old.nextHeight

\* a run keeps its start height and its end height, and the file it loaded
\* its start height from stays until the run's own first write
RunKeepsItsRange ==
  (pc \notin {"boot", "dead", "done"} /\ pc' # "dead") =>
    /\ startHeight' = startHeight
    /\ endHeight' = endHeight
    /\ pc' \notin {"boot", "dead"}

\* C35: within one run of the miner-reward scan the next_height values of
\* successive checkpoint writes are non-decreasing, each is greater than the
\* run's start height and at most end + 1, and the end_height written is the
\* same in every write of the run
C35_CheckpointWritesInOrder == [][WriteInOrder /\ RunKeepsItsRange]_vars

\* C35 witness: a run that started at height 1 has written three checkpoints,
\* with next_height 2, 3 and 3
C35_Witness ==
  /\ pc = "done"
  /\ BATCH_SIZE = 1
  /\ CHECKPOINT_EVERY_BATCH = 1
  /\ batchCount = 2
  /\ startHeight = 1
  /\ endHeight = 2
  /\ CheckpointOnDisk.kind = "ckpt"
  /\ CheckpointOnDisk.nextHeight = 3
  /\ CheckpointOnDisk.endHeight = 2

\* the tx hashes of the 'input' objects among the objects objs
InputHashes(objs) ==
  {IndexerObject(objs[n]).tx_hash :
     n \in {m \in 1 .. Len(objs) : IndexerObject(objs[m]).io_type = "input"}}

\* C36: in the per-input settlement scan every transaction hash is handed to
\* the reward computation at most once over the whole scan, also when the
\* hash comes with several 'input' objects of one page or of different pages;
\* every hash of an 'input' object received is handed over
C36_EachHashOnce ==
  (scanKind = "get_transactions" /\ dedup) =>
    /\ \A m, n \in 1 .. Len(handed) : m # n => handed[m] # handed[n]
    /\ {handed[n] : n \in 1 .. Len(handed)} = InputHashes(received)
    /\ seenTx = InputHashes(received)

\* C36 witness: the second page brought the second 'input' object and the
\* 'output' object of the transaction whose first 'input' object came with the
\* first page, and its hash was not handed over again
C36_Witness ==
  /\ scanKind = "get_transactions"
  /\ dedup
  /\ gpc = "page"
  /\ Len(queries) = 2
  /\ received = << 1, 2, 3 >>
  /\ res.objects = ObjectList(<< 2, 3 >>)
  /\ seenTx = {1}
  /\ handed = << 1 >>

(***************************************************************************)
(* C37                                                                     *)
(***************************************************************************)
\* the loop header runs "base += BigInt(BATCH_SIZE)" and tests "base <= endHeight"
LoopHeaderStep ==
  /\ pc \in {"batch", "ckpt_rename"}
  /\ pc' \in {"batch", "final_open"}

BaseAdvances == LoopHeaderStep => base' >= base + 1

\* n <= ceil(span / size), said without the division (ceil(span / 0) is Infinity)
AtMostCeil(n, span, size) == n = 0 \/ (n - 1) * size < span

BatchesWithinCeil ==
  pc \notin {"boot", "dead"} =>
    AtMostCeil(batchCount, endHeight - startHeight + 1, BATCH_SIZE)

\* C37: for every configured BATCH_SIZE and every end height each iteration of
\* the miner-reward batch loop advances base by at least one, and the run has
\* made at most ceil((end - start + 1) / BATCH_SIZE) batches when it gets to
\* the final checkpoint write.
C37_BatchLoopAdvances == []BatchesWithinCeil /\ [][BaseAdvances]_vars

\* the same for a BATCH_SIZE of one or more
C37_PositiveBatchAdvances ==
  [](BATCH_SIZE >= 1 => BatchesWithinCeil) /\ [][BATCH_SIZE >= 1 => BaseAdvances]_vars

\* a run with BATCH_SIZE = 0 has made more batches than there are heights to scan
C37_StandsStill ==
  /\ pc = "batch"
  /\ BATCH_SIZE = 0
  /\ batchCount > endHeight - startHeight + 1
  /\ base = startHeight

(***************************************************************************)
(* C38                                                                     *)
(***************************************************************************)
\* a file that is missing, is not valid JSON, or lacks a string-typed
\* next_height or sum_shannons
NotACheckpoint(file) ==
  \/ file.kind = "absent"
  \/ file.kind = "partial"
  \/ /\ file.kind = "json"
     /\ \/ file.next_height.type # "string"
        \/ file.sum_shannons.type # "string"

\* main starts with such a file: no resume, the scan begins at height 0 with
\* sum 0 (or finds nothing to do when the tip is below END_OFFSET)
StartsFromZero ==
  (pc \in {"boot", "dead", "done"} /\ NotACheckpoint(files[CHECKPOINT_FILE])) =>
    /\ startHeight' = 0
    /\ base' = 0
    /\ sum' = 0
    /\ ~ resumed'
    /\ pc' = IF endHeight' >= 0 THEN "batch" ELSE "done"

\* what saveCheckpoint puts in place is what loadCheckpoint returns
ReadsBackWhatWasSaved ==
  files'[CHECKPOINT_FILE] # files[CHECKPOINT_FILE] =>
    LET ckpt == loadCheckpoint(files'[CHECKPOINT_FILE])
    IN /\ saveArg.kind = "arg"
       /\ ckpt.kind = "ckpt"
       /\ ckpt.nextHeight = saveArg.nextHeight
       /\ ckpt.sum = saveArg.sum
       /\ ckpt.hasEnd
       /\ ckpt.endHeight = saveArg.endHeight

\* C38: a checkpoint file that is missing, is not valid JSON, or lacks a
\* string-typed next_height or sum_shannons counts as no checkpoint (the run
\* starts at height 0 with sum 0 and does not fail), and a checkpoint written
\* by saveCheckpoint is read back by loadCheckpoint with the same next_height,
\* sum and end_height.
C38_NoCheckpointOrRoundTrip == [][StartsFromZero /\ ReadsBackWhatWasSaved]_vars

\* a run has started from zero beside a file whose next_height is a number
C38_Witness ==
  /\ pc = "batch"
  /\ files[CHECKPOINT_FILE].kind = "json"
  /\ files[CHECKPOINT_FILE].next_height.type = "number"
  /\ startHeight = 0
  /\ sum = 0
  /\ batchCount = 0

(***************************************************************************)
(* C39                                                                     *)
(***************************************************************************)
\* the epoch of the header that follows the tip the estimate was made from
EpochAfterTip == parseEpochPacked(SecondaryHeader(msEnd + 1).epoch)

\* the estimate has been reported and the next header has a sound epoch
EstimateReported ==
  /\ msForm = "estimate"
  /\ mspc = "done"
  /\ reported.kind = "total"
  /\ EpochAfterTip.length > 0

\* C39: the secondary-issuance estimate max(0, number - 1) * R +
\* floor(R * index / length) never decreases as the tip advances along the
\* chain (index growing within an epoch, or the epoch number growing by one
\* with index back at 0), starting from epoch number 0.
C39_EstimateNeverDecreases ==
  EstimateReported => reported.value <= EstimateTotal(EpochAfterTip)

\* the same from epoch number 1 on
C39_NeverDecreasesFromEpochOne ==
  (EstimateReported /\ parseEpochPacked(SecondaryHeader(msEnd).epoch).number >= 1) =>
    reported.value <= EstimateTotal(EpochAfterTip)

\* the estimate from the last block of epoch 0 is above 0, the estimate from
\* the first block of epoch 1 is 0
C39_DropsAfterEpochZero ==
  /\ EstimateReported
  /\ parseEpochPacked(SecondaryHeader(msEnd).epoch).number = 0
  /\ EpochAfterTip.number = 1
  /\ EpochAfterTip.index = 0
  /\ reported.value > 0
  /\ EstimateTotal(EpochAfterTip) = 0

(***************************************************************************)
(* C40                                                                     *)
(***************************************************************************)
UnclaimedTotal == unclaimedDeposit + unclaimedPrepare

\* S of the header the indexer tip names when the scan starts
TreasuryStock == tipS

\* nothing about the burn is printed before the scan has ended, nor by a scan
\* that failed
NoReportBeforeTheEnd == upc # "done" => burnReport = NoBurnReport

BurnOnlyWithinStock ==
  upc = "done" =>
    /\ burnReport.kind \in {"burn", "sanity"}
    /\ burnReport.kind = "burn" <=> UnclaimedTotal <= TreasuryStock
    /\ burnReport.kind = "burn" =>
         /\ burnReport.burn = TreasuryStock - UnclaimedTotal
         /\ burnReport.burn >= 0
    /\ UnclaimedTotal > TreasuryStock => burnReport = [kind |-> "sanity", burn |-> 0]

\* C40: the unclaimed-reward scans report a treasury burn only when the
\* unclaimed total is at most S of the indexer tip header; the burn reported is
\* S minus the unclaimed total and is never negative; when the total exceeds S
\* no burn is reported and the sanity failure is signalled.
C40_BurnOnlyWithinStock == NoReportBeforeTheEnd /\ BurnOnlyWithinStock

\* a scan has ended with an unclaimed total above S
C40_Witness ==
  /\ upc = "done"
  /\ UnclaimedTotal > TreasuryStock
  /\ burnReport.kind = "sanity"

\* a scan has ended with a burn above 0 and an unclaimed total above 0
C40_BurnReported ==
  /\ upc = "done"
  /\ UnclaimedTotal > 0
  /\ burnReport.kind = "burn"
  /\ burnReport.burn > 0

====
